---- MODULE Spec2Model ----
(***************************************************************************)
(* Audit-event pipeline of project-genesis.                                *)
(*                                                                         *)
(* Analysis stage (eventsApp/audit-log-analysis): a blocking pika consumer *)
(* decodes audit events, runs the failed-login rule (a Redis sorted-set    *)
(* sliding window) or the sensitive-file rule, publishes alerts and        *)
(* settles the delivery.                                                   *)
(* Persistence stage (eventsApp/notification-service): an asyncio consumer *)
(* decodes alerts and inserts them in PostgreSQL, whose primary key on     *)
(* alert_id absorbs duplicates.                                            *)
(*                                                                         *)
(* Representation choices:                                                 *)
(*  - time is counted in whole seconds; time.time() is the clock reading   *)
(*    `now`, and an ISO timestamp with timespec='seconds' is that reading  *)
(*    followed by its "+00:00" offset;                                     *)
(*  - a string is a sequence of tokens, so that concatenation, suffix      *)
(*    tests and substring containment are computed, not assumed;           *)
(*  - a message body is a record: whether its bytes are UTF-8, what        *)
(*    json.loads makes of its text, and the decoded value;                 *)
(*  - uuid.uuid4() is a fresh number taken from the counter nextUuid;      *)
(*  - an exception is an outcome value ("Raise", "UniqueViolation", ...)   *)
(*    that the caller's except clauses are matched against.                *)
(***************************************************************************)
EXTENDS Integers, Sequences, FiniteSets, TLC

(***************************************************************************)
(* Bounds of the exploration                                               *)
(***************************************************************************)
MaxTicks == 3
MaxDeliveries == 3

\* how many calls of the health setters are followed
MaxSetterCalls == 3

\* the clock advances between deliveries by one of these amounts (seconds)
ClockSteps == {5, 60}

\* the latest second the clock can show when it advances by ClockSteps
MaxTime == MaxTicks * 60

(***************************************************************************)
(* Configuration (audit_analysis/config.py)                                *)
(***************************************************************************)
FAILED_LOGIN_WINDOW_SECONDS == 60
FAILED_LOGIN_THRESHOLD == 3
SENSITIVE_FILES ==
    { <<"/etc", "/sudoers">>, <<"/root", "/.ssh", "/authorized_keys">>,
      <<"/etc", "/shadow">>, <<"/etc", "/passwd">> }

VARIABLES
    now,                \* the wall clock, in seconds
    ticks,              \* how many times the clock has advanced
    redis_client,       \* redis_service.redis_client: FALSE is None
    zsets,              \* Redis: sorted set stored under each key
    expiry,             \* Redis: second at which each key expires, -1 = none
    connection,         \* analysis stage: "None", "open" or "closed"
    consumer_channel,   \* analysis stage: "None", "open" or "closed"
    publisher_channel,  \* analysis stage: "None", "open" or "closed"
    health,             \* health_manager: [redis, rabbitmq] flags
    alerts_queue,       \* broker: alerts published to RABBITMQ_ALERT_QUEUE
    nextUuid,           \* next value uuid.uuid4() returns
    pool,               \* PostgreSQLService.pool: FALSE is None
    rows,               \* PostgreSQL: the rows of table alerts, in insert order
    notif_pc,           \* notification main_task: "start", "consuming", "crashed"
    deliveries,         \* number of deliveries handled so far
    last,               \* what the last handler invocation did
    redis_up,           \* environment: the store answers
    broker,             \* environment: what the broker does, see BrokerStates
    consumer_pc,        \* start_consumer: "loop", "check", "consume", "stopped"
    unreferenced,       \* some open broker connection has no reference left
    closing_ops,        \* the close operations issued by a shutdown, in order
    self_connection,    \* RabbitMQConsumer.connection: "None", "open", "closed"
    self_channel,       \* RabbitMQConsumer.channel: "None", "open", "closed"
    connected,          \* RabbitMQConsumer.connected
    closing,            \* RabbitMQConsumer._closing
    consumer_tag,       \* RabbitMQConsumer._consumer_tag: FALSE is None
    in_flight,          \* persistence stage: handler tasks that have not ended
    unacked,            \* broker: tags delivered on the alert channel, unsettled
    requeued,           \* broker: tags it put back on the alert queue
    consumers,          \* broker: consumers each service instance has on its
                        \* inbound queue, [analysis, persistence]
    calls,              \* rate limiter: the pipeline call of each consumer
    added_entries,      \* rate limiter: entries added by the pipelines that
                        \* have been executed for the subject
    gauges,             \* metrics: the two connection status gauges
    setters,            \* health_manager: the setter call of each thread
    setter_log,         \* health_manager: calls and returns, in order
    observed            \* what get_health_status returned last

vars == << now, ticks, redis_client, zsets, expiry, connection, consumer_channel,
           publisher_channel, health, alerts_queue, nextUuid, pool, rows,
           notif_pc, deliveries, last, redis_up, broker, consumer_pc,
           unreferenced, closing_ops, self_connection, self_channel, connected,
           closing, consumer_tag, in_flight, unacked, requeued, consumers,
           calls, added_entries, gauges, setters, setter_log, observed >>

\* what only the concurrent callers of the store and of health_manager change
threadVars == << calls, added_entries, gauges, setters, setter_log, observed >>

analysisVars == << redis_client, zsets, expiry, connection, consumer_channel,
                   publisher_channel, health, alerts_queue, nextUuid >>

persistVars == << pool, rows, notif_pc >>

lifecycleVars == << redis_up, broker, consumer_pc, closing_ops >>

notifierVars == << self_connection, self_channel, connected, closing,
                   consumer_tag, in_flight, unacked, requeued >>

(***************************************************************************)
(* Python helpers                                                          *)
(***************************************************************************)
\* dict.get(key, default)
Get(d, k, default) == IF k \in DOMAIN d THEN d[k] ELSE default

\* variant: the whole string has to equal the needle
Contains_WholeString(haystack, needle) == haystack = needle

\* `needle in haystack` for strings
Contains(haystack, needle) ==
    \E i \in 1..(Len(haystack) - Len(needle) + 1) :
        SubSeq(haystack, i, i + Len(needle) - 1) = needle

\* str.endswith(suffix)
EndsWith(s, suffix) ==
    /\ Len(s) >= Len(suffix)
    /\ SubSeq(s, Len(s) - Len(suffix) + 1, Len(s)) = suffix

\* datetime.datetime.now(datetime.timezone.utc).isoformat(timespec='seconds') + "Z"
IsoTimestampZ(t) == << ToString(t), "+00:00", "Z" >>

(***************************************************************************)
(* Message bodies                                                          *)
(***************************************************************************)
\* A str is the sequence of its pieces: a path is split before each "/", an
\* identifier at each ":".
\* the decoded value of a body that json.loads rejects or that is no dict
NoObject == [none |-> "none"]

LoginEvent(id, user, host, result) ==
    [ event_id |-> id, timestamp |-> <<"0", "+00:00", "Z">>,
      event_type |-> "user_login", action_result |-> result,
      user_id |-> user, server_hostname |-> host,
      source_service |-> "auth", client_ip |-> "10.0.0.1" ]

FileEvent(id, user, host, resource) ==
    [ event_id |-> id, timestamp |-> <<"0", "+00:00", "Z">>,
      event_type |-> "file_modified", action_result |-> "MODIFIED",
      user_id |-> user, server_hostname |-> host, resource |-> resource,
      source_service |-> "fim" ]

\* utf8: the bytes decode as UTF-8; head: the first 100 bytes decode as
\* UTF-8; json: what json.loads does with the text
JsonBody(obj) ==
    [ utf8 |-> TRUE, head |-> TRUE, json |-> "object", obj |-> obj ]
\* text that is not JSON, such as b'{"event_type": "malformed'
MalformedBody ==
    [ utf8 |-> TRUE, head |-> TRUE, json |-> "invalid", obj |-> NoObject ]
\* JSON that is not an object, such as b'[1, 2]'
ArrayBody ==
    [ utf8 |-> TRUE, head |-> TRUE, json |-> "array", obj |-> NoObject ]
\* bytes that are not UTF-8, such as b'\xff\xfe'
NotUtf8Body ==
    [ utf8 |-> FALSE, head |-> FALSE, json |-> "invalid", obj |-> NoObject ]
\* UTF-8 text that is not JSON and has a two-byte character at bytes 100-101
SplitCharBody ==
    [ utf8 |-> TRUE, head |-> FALSE, json |-> "invalid", obj |-> NoObject ]

\* the bodies delivered on the audit_events queue
EventBodies ==
    { MalformedBody, ArrayBody, NotUtf8Body,
      JsonBody(LoginEvent(201, <<"alice">>, <<"h1">>, "FAILURE")),
      JsonBody(LoginEvent(203, <<"alice">>, <<"h1">>, "SUCCESS")),
      JsonBody(FileEvent(204, <<"alice">>, <<"h1">>, <<"/etc", "/passwd">>)),
      JsonBody(FileEvent(205, <<"alice">>, <<"h1">>, <<"/var", "/log", "/syslog">>)) }

\* further bodies for the rules: two subjects whose identifiers hold a colon,
\* a resource that differs from a sensitive path in case only, and a resource
\* that holds a sensitive path in its middle
RuleBodies ==
    { JsonBody(LoginEvent(201, <<"alice">>, <<"h1">>, "FAILURE")),
      JsonBody(LoginEvent(211, <<"svc", ":", "db">>, <<"h1">>, "FAILURE")),
      JsonBody(LoginEvent(212, <<"svc">>, <<"db", ":", "h1">>, "FAILURE")),
      JsonBody(FileEvent(204, <<"alice">>, <<"h1">>, <<"/etc", "/passwd">>)),
      JsonBody(FileEvent(206, <<"alice">>, <<"h1">>, <<"/ETC", "/PASSWD">>)),
      JsonBody(FileEvent(207, <<"alice">>, <<"h1">>,
                         <<"/backup", "/etc", "/shadow", ".bak">>)) }

(***************************************************************************)
(* JSON text.  A text is the sequence of its tokens: a brace, a comma, a   *)
(* colon, a quote, a number, or a piece of a string.                        *)
(***************************************************************************)
\* the largest number a message carries
MaxJsonNumber == 300

\* the order in which the dicts were filled; json.dumps keeps it
KeyOrder ==
    << "alert_id", "timestamp", "alert_name", "alert_type", "severity",
       "source_service_name", "rule_id", "actor_id", "client_ip",
       "resource_type", "resource_id", "server_hostname", "action_observed",
       "correlation_id", "raw_event_data",
       "event_id", "event_type", "action_result", "user_id", "resource",
       "source_service" >>

\* what kind of value the model keeps under a key: a number, a str kept as
\* its pieces, a dict, or a str kept whole
FieldKind(k) ==
    IF k \in { "alert_id", "correlation_id", "event_id" } THEN "number"
    ELSE IF k \in { "timestamp", "actor_id", "user_id", "server_hostname",
                    "resource", "resource_id" } THEN "pieces"
    ELSE IF k = "raw_event_data" THEN "object"
    ELSE "string"

\* json.dumps puts a backslash before a quote and before a backslash
JsonEscape(piece) ==
    IF piece = "\"" THEN "\\\""
    ELSE IF piece = "\\" THEN "\\\\"
    ELSE piece

\* variant: json.loads leaves the escapes as they are written
JsonUnescape_KeepsBackslash(tok) == tok

\* json.loads takes the backslash off an escaped quote or backslash
JsonUnescape(tok) ==
    IF tok = "\\\"" THEN "\""
    ELSE IF tok = "\\\\" THEN "\\"
    ELSE tok

\* a str between quotes
JsonString(pieces) ==
    << "\"" >> \o [ i \in 1..Len(pieces) |-> JsonEscape(pieces[i]) ] \o << "\"" >>

RECURSIVE JsonDumps(_)
RECURSIVE DumpMembers(_, _)

\* the text of one value
DumpValue(k, v) ==
    IF FieldKind(k) = "number" THEN << ToString(v) >>
    ELSE IF FieldKind(k) = "pieces" THEN JsonString(v)
    ELSE IF FieldKind(k) = "object" THEN JsonDumps(v)
    ELSE JsonString(<< v >>)

\* the members of a dict, in order, with a comma between them
DumpMembers(obj, keys) ==
    IF keys = << >> THEN << >>
    ELSE JsonString(<< Head(keys) >>) \o << ":" >>
         \o DumpValue(Head(keys), obj[Head(keys)])
         \o (IF Len(keys) > 1 THEN << "," >> ELSE << >>)
         \o DumpMembers(obj, Tail(keys))

\* json.dumps(obj) for a dict
JsonDumps(obj) ==
    << "{" >>
    \o DumpMembers(obj, SelectSeq(KeyOrder, LAMBDA k : k \in DOMAIN obj))
    \o << "}" >>

\* the position of the quote that ends the str whose first piece is at i
RECURSIVE ClosingQuote(_, _)
ClosingQuote(toks, i) ==
    IF toks[i] = "\"" THEN i ELSE ClosingQuote(toks, i + 1)

\* int(token)
ParseNumber(tok) == CHOOSE n \in 0..MaxJsonNumber : ToString(n) = tok

RECURSIVE ParseValue(_, _, _)
RECURSIVE ParseMembers(_, _, _)

\* the value that starts at position i, read as the kind its key asks for,
\* and the position after it
ParseValue(toks, i, kind) ==
    IF toks[i] = "{"
    THEN ParseMembers(toks, i + 1, << >>)
    ELSE IF toks[i] = "\""
    THEN LET j == ClosingQuote(toks, i + 1)
             pieces == [ n \in 1..(j - i - 1) |-> JsonUnescape(toks[i + n]) ]
         IN  [ val |-> IF kind = "pieces" THEN pieces ELSE pieces[1],
               next |-> j + 1 ]
    ELSE [ val |-> ParseNumber(toks[i]), next |-> i + 1 ]

\* the members up to the closing brace; acc holds the <<key, value>> pairs
\* read so far
ParseMembers(toks, i, acc) ==
    IF toks[i] = "}"
    THEN [ val |-> [ k \in { acc[n][1] : n \in DOMAIN acc } |->
                       LET n == CHOOSE m \in DOMAIN acc :
                                  /\ acc[m][1] = k
                                  /\ \A l \in DOMAIN acc :
                                        acc[l][1] = k => l <= m
                       IN  acc[n][2] ],
           next |-> i + 1 ]
    ELSE IF toks[i] = ","
    THEN ParseMembers(toks, i + 1, acc)
    ELSE LET key == ParseValue(toks, i, "string")
             v == ParseValue(toks, key.next + 1, FieldKind(key.val))
         IN  ParseMembers(toks, v.next, Append(acc, << key.val, v.val >>))

\* json.loads(text) for the text of a dict
JsonLoads(toks) == ParseValue(toks, 1, "object").val

AlertMessage(id, ts) ==
    [ alert_id |-> id, correlation_id |-> 201, timestamp |-> ts,
      alert_name |-> "Multiple Failed Login Attempts",
      alert_type |-> "SECURITY", severity |-> "CRITICAL" ]

\* the bodies delivered on the audit_alerts queue
AlertBodies ==
    { MalformedBody, ArrayBody, NotUtf8Body, SplitCharBody,
      JsonBody(AlertMessage(101, <<"10", "+00:00", "Z">>)),
      JsonBody(AlertMessage(101, <<"20", "+00:00">>)),
      JsonBody(AlertMessage(102, <<"10", "+00:00", "Z">>)),
      JsonBody(AlertMessage(102, <<"yesterday">>)),
      JsonBody([ alert_id |-> 102, correlation_id |-> 201 ]),
      JsonBody([ correlation_id |-> 201,
                 timestamp |-> <<"10", "+00:00", "Z">> ]) }

(***************************************************************************)
(* Redis sorted sets.  A sorted set is a set of [member, score] entries    *)
(* with at most one entry per member.                                      *)
(***************************************************************************)
\* f"failed_logins_zset:{user_id}:{server_hostname}"
ZsetKey(user_id, server_hostname) ==
    << "failed_logins_zset", ":" >> \o user_id \o << ":" >> \o server_hostname

Keys ==
    { ZsetKey(Get(b.obj, "user_id", <<"unknown">>),
              Get(b.obj, "server_hostname", <<"unknown">>)) :
        b \in EventBodies \cup RuleBodies }

\* ZADD key score member: inserts the member or updates its score
ZAdd(zs, member, score) ==
    { e \in zs : e.member # member } \cup { [member |-> member, score |-> score] }

\* reply of ZADD: the number of members that were new
ZAddReply(zs, member) ==
    IF \E e \in zs : e.member = member THEN 0 ELSE 1

\* variant: the upper end of the range is exclusive
ZRemRangeByScore_ExclusiveMax(zs, min, max) ==
    { e \in zs : ~(min <= e.score /\ e.score < max) }

\* ZREMRANGEBYSCORE key min max: both ends of the range are inclusive
ZRemRangeByScore(zs, min, max) ==
    { e \in zs : ~(min <= e.score /\ e.score <= max) }

\* ZCARD key
ZCard(zs) == Cardinality(zs)

(***************************************************************************)
(* Analysis stage: the state the rules and the publisher work on           *)
(***************************************************************************)
\* health_manager lines 17 and 25: `1 if status else 0`
GaugeValue(status) == IF status THEN 1 ELSE 0

\* the gauges after setters that ran one after the other left the flags at h
GaugeValues(h) ==
    [ redis |-> GaugeValue(h.redis), rabbitmq |-> GaugeValue(h.rabbitmq) ]

AnalysisState ==
    [ zsets |-> zsets, expiry |-> expiry, health |-> health,
      alerts_queue |-> alerts_queue, nextUuid |-> nextUuid,
      connection |-> connection, consumer_channel |-> consumer_channel,
      publisher_channel |-> publisher_channel ]

\* faults the environment can inject in one delivery
RedisFaults == { "none", "ConnectionErrorBeforeExec", "ConnectionErrorAfterExec" }
PublishFaults == { "none", "AMQPConnectionError", "Exception" }

\* variant: a publish that raised is reported as done
publish_alert_ReportsSuccessOnError(st, alert_payload, pubFault) ==
    IF st.publisher_channel # "open"
    THEN [ st |-> st, ret |-> FALSE ]
    ELSE IF pubFault = "AMQPConnectionError"
    THEN [ st |-> [ st EXCEPT !.health.rabbitmq = FALSE,
                              !.connection = "closed",
                              !.consumer_channel = "closed",
                              !.publisher_channel = "closed" ],
           ret |-> FALSE ]
    ELSE IF pubFault = "Exception"
    THEN [ st |-> st, ret |-> TRUE ]
    ELSE [ st |-> [ st EXCEPT !.alerts_queue = Append(@, alert_payload) ],
           ret |-> TRUE ]

\* _publish_alert: TRUE iff the alert reached the alert queue
publish_alert(st, alert_payload, pubFault) ==
    IF st.publisher_channel # "open"
    THEN [ st |-> st, ret |-> FALSE ]
    ELSE IF pubFault = "AMQPConnectionError"
    THEN \* the transport is gone: pika marks connection and channels closed
         [ st |-> [ st EXCEPT !.health.rabbitmq = FALSE,
                              !.connection = "closed",
                              !.consumer_channel = "closed",
                              !.publisher_channel = "closed" ],
           ret |-> FALSE ]
    ELSE IF pubFault = "Exception"
    THEN [ st |-> st, ret |-> FALSE ]
    ELSE [ st |-> [ st EXCEPT !.alerts_queue = Append(@, alert_payload) ],
           ret |-> TRUE ]

\* variant: the prune bound is taken from the key's expiry, not from the window
PipelineZset_PruneByExpiry(zs, member, score) ==
    ZRemRangeByScore(ZAdd(zs, member, score), 0,
                     score - (FAILED_LOGIN_WINDOW_SECONDS + 60))

\* the four commands queued on the pipeline, executed as one MULTI/EXEC
PipelineZset(zs, member, score) ==
    ZRemRangeByScore(ZAdd(zs, member, score), 0,
                     score - FAILED_LOGIN_WINDOW_SECONDS)

\* variant: the key lives exactly as long as the window
KeyExpiry_WindowOnly(t) == t + FAILED_LOGIN_WINDOW_SECONDS

\* pipe.expire(zset_key, config.FAILED_LOGIN_WINDOW_SECONDS + 60), executed at
\* second t: the second at which Redis drops the key
KeyExpiry(t) == t + FAILED_LOGIN_WINDOW_SECONDS + 60

\* variant: ZCARD is queued before ZREMRANGEBYSCORE
PipelineResults_CountBeforePrune(zs, member, score) ==
    LET added == ZAdd(zs, member, score)
        pruned == PipelineZset(zs, member, score)
    IN  << ZAddReply(zs, member),
           Cardinality(added) - Cardinality(pruned),
           ZCard(added),
           IF pruned # {} THEN 1 ELSE 0 >>

\* the list pipe.execute() returns: replies of ZADD, ZREMRANGEBYSCORE, ZCARD, EXPIRE
PipelineResults(zs, member, score) ==
    LET added == ZAdd(zs, member, score)
        pruned == PipelineZset(zs, member, score)
    IN  << ZAddReply(zs, member),
           Cardinality(added) - Cardinality(pruned),
           ZCard(pruned),
           IF pruned # {} THEN 1 ELSE 0 >>

\* results[-1]
CurrentAttemptsInWindow(results) == results[Len(results)]

FailedLoginAlert(event, user_id, server_hostname, uuid, t) ==
    [ alert_id |-> uuid,
      timestamp |-> IsoTimestampZ(t),
      alert_name |-> "Multiple Failed Login Attempts",
      alert_type |-> "SECURITY",
      severity |-> "CRITICAL",
      source_service_name |-> Get(event, "source_service", "unknown-event-source"),
      rule_id |-> "ANLY-SEC-001",
      actor_id |-> user_id,
      client_ip |-> Get(event, "client_ip", "N/A"),
      resource_type |-> "SERVER",
      resource_id |-> << server_hostname >>,
      server_hostname |-> server_hostname,
      action_observed |-> "LOGIN_FAILURE",
      correlation_id |-> Get(event, "event_id", uuid + 1),
      raw_event_data |-> event ]

SensitiveFileAlert(event, user_id, server_hostname, resource, uuid, t) ==
    [ alert_id |-> uuid,
      timestamp |-> IsoTimestampZ(t),
      alert_name |-> "Sensitive File Modification Detected",
      alert_type |-> "SECURITY",
      severity |-> "CRITICAL",
      source_service_name |-> Get(event, "source_service", "unknown-event-source"),
      rule_id |-> "ANLY-SEC-002",
      actor_id |-> user_id,
      client_ip |-> Get(event, "client_ip", "N/A"),
      resource_type |-> "FILE",
      resource_id |-> resource,
      server_hostname |-> server_hostname,
      action_observed |-> "FILE_MODIFIED",
      correlation_id |-> Get(event, "event_id", uuid + 1),
      raw_event_data |-> event ]

\* what a rule hands back: ret is "True", "False" or "Raise" (an exception
\* left the function); results/count are the pipeline replies and the value
\* compared with the threshold; alert is <<payload>> when one was built
RuleOutcome(st, ret, results, count, alert) ==
    [ st |-> st, ret |-> ret, results |-> results, count |-> count,
      alert |-> alert ]

\* variant: the generic handler drops the message, as the JSON handler does
OnRuleResult_DropOnError(ret) ==
    IF ret = "True" THEN "Ack"
    ELSE IF ret = "Raise" THEN "NackDrop" ELSE "NackRequeue"

\* lines 270-272, 278-280, 285 and 291-293 of on_message_callback: a rule that
\* returned True lets the message be acked; a rule that returned False, or an
\* exception caught by `except Exception`, has it nacked with requeue=True
OnRuleResult(ret) ==
    IF ret = "True" THEN "Ack" ELSE "NackRequeue"

\* _analyze_failed_login_attempts
analyze_failed_login_attempts(st, event, user_id, server_hostname, redisFault, pubFault) ==
    IF ~redis_client
    THEN RuleOutcome(st, "False", << >>, -1, << >>)
    ELSE
    LET current_unix_timestamp == now
        current_iso_timestamp == IsoTimestampZ(now)
        zset_key == ZsetKey(user_id, server_hostname)
        results == PipelineResults(st.zsets[zset_key], current_iso_timestamp,
                                   current_unix_timestamp)
        executed ==
            [ st EXCEPT
                !.zsets[zset_key] = PipelineZset(@, current_iso_timestamp,
                                                 current_unix_timestamp),
                !.expiry[zset_key] =
                    IF results[4] = 1
                    THEN KeyExpiry(current_unix_timestamp)
                    ELSE -1 ]
        current_attempts_in_window == CurrentAttemptsInWindow(results)
    IN  \* an exception in the try block reaches `except redis.exceptions
        \* .ConnectionError`; the module never imports redis, so matching the
        \* clause raises NameError, which leaves the function
        IF redisFault = "ConnectionErrorBeforeExec"
        THEN RuleOutcome(st, "Raise", << >>, -1, << >>)
        ELSE IF redisFault = "ConnectionErrorAfterExec"
        THEN RuleOutcome(executed, "Raise", << >>, -1, << >>)
        ELSE IF current_attempts_in_window >= FAILED_LOGIN_THRESHOLD
        THEN LET alert_payload ==
                     FailedLoginAlert(event, user_id, server_hostname,
                                      st.nextUuid, now)
                 pub == publish_alert(
                            [ executed EXCEPT !.nextUuid = @ + 2 ],
                            alert_payload, pubFault)
             IN  RuleOutcome(pub.st, IF pub.ret THEN "True" ELSE "False",
                             results, current_attempts_in_window,
                             << alert_payload >>)
        ELSE RuleOutcome(executed, "False", results,
                         current_attempts_in_window, << >>)

\* _analyze_critical_file_modifications
analyze_critical_file_modifications(st, event, user_id, server_hostname, resource, pubFault) ==
    IF \E sensitive_file \in SENSITIVE_FILES : Contains(resource, sensitive_file)
    THEN LET alert_payload ==
                 SensitiveFileAlert(event, user_id, server_hostname, resource,
                                    st.nextUuid, now)
             pub == publish_alert([ st EXCEPT !.nextUuid = @ + 2 ],
                                  alert_payload, pubFault)
         IN  RuleOutcome(pub.st, IF pub.ret THEN "True" ELSE "False",
                         << >>, -1, << alert_payload >>)
    ELSE RuleOutcome(st, "False", << >>, -1, << >>)

(***************************************************************************)
(* The record of one handler invocation.                                   *)
(*   decision: "Ack", "NackRequeue", "NackDrop", or "Raise" when the       *)
(*             handler was left by an exception without settling           *)
(*   rules:    the rule functions the dispatcher called, in order          *)
(*   writer:   whether insert_alert was called                             *)
(*   outcome:  what insert_alert did: "True", "False", "UniqueViolation"   *)
(*   key, before: the sorted set the failed-login rule worked on and its   *)
(*             content when the rule was called                            *)
(*   executed: whether the INSERT statement reached the database           *)
(*   settles:  the number of basic_ack / basic_nack calls the handler made *)
(*   processed, consumed: the number of .inc() calls the handler made on   *)
(*             audit_analysis_processed_total and on                       *)
(*             rabbitmq_messages_consumed_total                            *)
(* Every other step resets the record to NoDelivery.                       *)
(***************************************************************************)
NoDelivery ==
    [ stage |-> "none", body |-> MalformedBody, decision |-> "none",
      rules |-> << >>, redisFault |-> "none", pubFault |-> "none",
      ret |-> "none", results |-> << >>, count |-> -1, alert |-> << >>,
      time |-> 0, key |-> << >>, before |-> {}, writer |-> FALSE, outcome |-> "none", executed |-> FALSE,
      dbFault |-> "none", settles |-> 0, processed |-> 0, consumed |-> 0 ]

\* ch.basic_ack / ch.basic_nack on the consumer channel: a closed channel
\* raises; raised inside the try block it reaches `except Exception`, whose
\* own basic_nack raises again and leaves the callback
Settle(st, decision) ==
    IF st.consumer_channel = "open" THEN decision ELSE "Raise"

\* the basic_ack / basic_nack calls of the analysis handler: one on an open
\* channel; on a closed channel the call raises, and when it was made inside
\* the try block (the body decoded as a dict) `except Exception` calls
\* basic_nack once more
SettleCalls(body, st) ==
    IF st.consumer_channel = "open" THEN 1
    ELSE IF body.utf8 /\ body.json = "object" THEN 2 ELSE 1

\* variant: the counters are incremented on entry to the callback
MetricsIncrements_OnEntry(body) == 1

\* lines 254-258: metrics.audit_analysis_processed_total.inc() and
\* metrics.rabbitmq_messages_consumed_total.inc() follow json.loads and the
\* log line that calls event.get, so they run once when the body decoded as
\* a dict and not at all otherwise
MetricsIncrements(body) ==
    IF body.utf8 /\ body.json = "object" THEN 1 ELSE 0

\* the conditions on lines 268 and 276 of on_message_callback
\* variant: every login event is handed to the failed-login rule
IsFailedLogin_AnyResult(body) ==
    /\ body.json = "object" /\ body.utf8
    /\ Get(body.obj, "event_type", "None") = "user_login"

IsFailedLogin(body) ==
    /\ body.json = "object" /\ body.utf8
    /\ Get(body.obj, "event_type", "None") = "user_login"
    /\ Get(body.obj, "action_result", "None") = "FAILURE"

IsFileModified(body) ==
    /\ body.json = "object" /\ body.utf8
    /\ Get(body.obj, "event_type", "None") = "file_modified"
    /\ Get(body.obj, "action_result", "None") = "MODIFIED"

\* the sorted-set key of a failed-login event
EventKey(event) ==
    ZsetKey(Get(event, "user_id", <<"unknown">>),
            Get(event, "server_hostname", <<"unknown">>))

\* on_message_callback of the analysis stage: the outcome of the dispatch
DispatchEvent(body, redisFault, pubFault) ==
    LET st0 == AnalysisState
        none == RuleOutcome(st0, "none", << >>, -1, << >>)
    IN
    IF ~body.utf8
    THEN \* body.decode('utf-8') raises UnicodeDecodeError: except Exception
         [ r |-> none, rules |-> << >>, decision |-> Settle(st0, "NackRequeue") ]
    ELSE IF body.json = "invalid"
    THEN \* json.JSONDecodeError
         [ r |-> none, rules |-> << >>, decision |-> Settle(st0, "NackDrop") ]
    ELSE IF body.json # "object"
    THEN \* event.get raises AttributeError: except Exception
         [ r |-> none, rules |-> << >>, decision |-> Settle(st0, "NackRequeue") ]
    ELSE
    LET event == body.obj
        user_id == Get(event, "user_id", <<"unknown">>)
        server_hostname == Get(event, "server_hostname", <<"unknown">>)
        resource == Get(event, "resource", << >>)
    IN
    IF IsFailedLogin(body)
    THEN LET r == analyze_failed_login_attempts(st0, event, user_id,
                                                server_hostname, redisFault,
                                                pubFault)
         IN  \* a rule that returned True lets the second `if` be evaluated
             IF OnRuleResult(r.ret) = "Ack" /\ IsFileModified(body)
             THEN LET r2 == analyze_critical_file_modifications(
                                r.st, event, user_id, server_hostname,
                                resource, pubFault)
                  IN  [ r |-> [ r2 EXCEPT !.results = r.results,
                                          !.count = r.count,
                                          !.alert = r.alert \o r2.alert ],
                        rules |-> << "failed_login", "sensitive_file" >>,
                        decision |-> Settle(r2.st, OnRuleResult(r2.ret)) ]
             ELSE [ r |-> r, rules |-> << "failed_login" >>,
                    decision |-> Settle(r.st, OnRuleResult(r.ret)) ]
    ELSE IF IsFileModified(body)
    THEN LET r == analyze_critical_file_modifications(st0, event, user_id,
                                                      server_hostname,
                                                      resource, pubFault)
         IN  [ r |-> r, rules |-> << "sensitive_file" >>,
               decision |-> Settle(r.st, OnRuleResult(r.ret)) ]
    ELSE [ r |-> none, rules |-> << >>, decision |-> Settle(st0, "Ack") ]

(***************************************************************************)
(* Analysis stage: actions                                                 *)
(***************************************************************************)
\* redis_service.initialize_redis, called by start_consumer at the top of its
\* loop, that is, while it is not blocked in start_consuming
initialize_redis(ok) ==
    /\ consumer_channel # "open"
    /\ redis_client' = ok
    /\ health' = [ health EXCEPT !.redis = ok ]
    /\ last' = NoDelivery
    /\ gauges' = GaugeValues(health')
    /\ UNCHANGED << calls, added_entries, setters, setter_log, observed, consumers, now, ticks, zsets, expiry, connection, consumer_channel,
                    publisher_channel, alerts_queue, nextUuid, persistVars,
                    deliveries, lifecycleVars, notifierVars, unreferenced >>

ConnectOutcomes ==
    { "ok", "AMQPConnectionError", "channel_open_failed",
      "consumer_declare_failed", "publisher_declare_failed", "Exception" }

\* variant: a failed declaration of the publisher queue is only logged
ConnectResult_PartialDeclare(outcome) ==
    IF outcome \in { "ok", "publisher_declare_failed" }
    THEN [ connection |-> "open", consumer_channel |-> "open",
           publisher_channel |->
               IF outcome = "ok" THEN "open" ELSE "closed",
           rabbitmq |-> TRUE, ret |-> TRUE,
           unreferenced |-> unreferenced \/ connection = "open" ]
    ELSE [ connection |-> "None", consumer_channel |-> "None",
           publisher_channel |-> "None", rabbitmq |-> FALSE, ret |-> FALSE,
           unreferenced |->
               \/ unreferenced
               \/ connection = "open"
               \/ outcome = "channel_open_failed" ]

\* connect_rabbitmq_channels: the handles, the health flag and the value
\* returned, for each way the attempt can go:
\*   "AMQPConnectionError", "Exception": BlockingConnection raises (line 31),
\*       no connection is opened;
\*   "channel_open_failed": connection.channel() raises on the open
\*       connection and one of the outer handlers (lines 71-84) forgets the
\*       handles without closing;
\*   "consumer_declare_failed", "publisher_declare_failed": queue_declare
\*       raises ChannelClosedByBroker, the handler closes the connection.
\* The connection the global named before the call is closed by no branch:
\* if it was open it is open still, with no reference to it.
ConnectResult(outcome) ==
    IF outcome = "ok"
    THEN [ connection |-> "open", consumer_channel |-> "open",
           publisher_channel |-> "open", rabbitmq |-> TRUE, ret |-> TRUE,
           unreferenced |-> unreferenced \/ connection = "open" ]
    ELSE [ connection |-> "None", consumer_channel |-> "None",
           publisher_channel |-> "None", rabbitmq |-> FALSE, ret |-> FALSE,
           unreferenced |->
               \/ unreferenced
               \/ connection = "open"
               \/ outcome = "channel_open_failed" ]

\* connect_rabbitmq_channels, called by start_consumer once Redis answers and
\* while it is not blocked in start_consuming; followed by basic_consume
connect_rabbitmq_channels(outcome) ==
    /\ redis_client
    /\ consumer_channel # "open"
    /\ LET c == ConnectResult(outcome)
       IN  /\ connection' = c.connection
           /\ consumer_channel' = c.consumer_channel
           /\ publisher_channel' = c.publisher_channel
           /\ health' = [ health EXCEPT !.rabbitmq = c.rabbitmq ]
           /\ unreferenced' = c.unreferenced
    /\ last' = NoDelivery
    /\ gauges' = GaugeValues(health')
    /\ UNCHANGED << calls, added_entries, setters, setter_log, observed, consumers, now, ticks, redis_client, zsets, expiry, alerts_queue, nextUuid,
                    persistVars, deliveries, lifecycleVars, notifierVars >>

\* the broker closes the publisher channel (for example after a channel error)
PublisherChannelClosed ==
    /\ publisher_channel = "open"
    /\ publisher_channel' = "closed"
    /\ last' = NoDelivery
    /\ UNCHANGED << threadVars, consumers, now, ticks, redis_client, zsets, expiry, connection,
                    consumer_channel, health, alerts_queue, nextUuid,
                    persistVars, deliveries, lifecycleVars, notifierVars, unreferenced >>

\* on_message_callback (analysis stage), run by start_consuming for one delivery
on_message_callback(body, redisFault, pubFault) ==
    /\ consumer_channel = "open"
    /\ deliveries < MaxDeliveries
    /\ LET d == DispatchEvent(body, redisFault, pubFault)
       IN  /\ zsets' = d.r.st.zsets
           /\ expiry' = d.r.st.expiry
           /\ health' = d.r.st.health
           /\ alerts_queue' = d.r.st.alerts_queue
           /\ nextUuid' = d.r.st.nextUuid
           /\ connection' = d.r.st.connection
           /\ consumer_channel' = d.r.st.consumer_channel
           /\ publisher_channel' = d.r.st.publisher_channel
           /\ last' = [ NoDelivery EXCEPT
                          !.stage = "analysis", !.body = body,
                          !.decision = d.decision, !.rules = d.rules,
                          !.redisFault = redisFault, !.pubFault = pubFault,
                          !.ret = d.r.ret, !.results = d.r.results,
                          !.count = d.r.count, !.alert = d.r.alert,
                          !.time = now,
                          !.settles = SettleCalls(body, d.r.st),
                          !.processed = MetricsIncrements(body),
                          !.consumed = MetricsIncrements(body),
                          !.key = IF IsFailedLogin(body)
                                  THEN EventKey(body.obj) ELSE << >>,
                          !.before = IF IsFailedLogin(body)
                                     THEN zsets[EventKey(body.obj)] ELSE {} ]
    /\ deliveries' = deliveries + 1
    /\ gauges' = GaugeValues(health')
    /\ UNCHANGED << calls, added_entries, setters, setter_log, observed, consumers, now, ticks, redis_client, persistVars, lifecycleVars, notifierVars, unreferenced >>

\* time passes; Redis drops the keys whose expiry has been reached.  The
\* record names a key that was dropped and the entries that went with it.
Tick(d) ==
    /\ ticks < MaxTicks
    /\ ticks' = ticks + 1
    /\ now' = now + d
    /\ zsets' = [ k \in Keys |->
                    IF expiry[k] # -1 /\ expiry[k] <= now + d
                    THEN {} ELSE zsets[k] ]
    /\ expiry' = [ k \in Keys |->
                    IF expiry[k] # -1 /\ expiry[k] <= now + d
                    THEN -1 ELSE expiry[k] ]
    /\ LET dropped == { k \in Keys : expiry[k] # -1 /\ expiry[k] <= now + d }
       IN  last' = IF dropped = {} THEN NoDelivery
                   ELSE [ NoDelivery EXCEPT
                            !.stage = "expired", !.time = now + d,
                            !.key = CHOOSE k \in dropped : TRUE,
                            !.before = UNION { zsets[k] : k \in dropped } ]
    /\ UNCHANGED << threadVars, consumers, redis_client, connection, consumer_channel,
                    publisher_channel, health, alerts_queue, nextUuid,
                    persistVars, deliveries, lifecycleVars, notifierVars, unreferenced >>

(***************************************************************************)
(* Persistence stage                                                       *)
(***************************************************************************)
DbFaults ==
    { "none", "OperationalErrorOnConnect", "OperationalErrorOnExecute",
      "OperationalErrorAfterCommit", "DataError" }

\* the seconds values an ISO date-time token can stand for
IsDateTime(tok) == \E t \in 0..(MaxTime + 1) : tok = ToString(t)

\* variant: the timestamp is parsed as it arrived
NormalizeTimestamp_AsReceived(timestamp_str) == timestamp_str

\* lines 152-153: strip the redundant Z after an explicit zero offset
NormalizeTimestamp(timestamp_str) ==
    IF EndsWith(timestamp_str, << "+00:00", "Z" >>)
       \/ EndsWith(timestamp_str, << "-00:00", "Z" >>)
    THEN SubSeq(timestamp_str, 1, Len(timestamp_str) - 1)
    ELSE timestamp_str

\* datetime.datetime.fromisoformat accepts a date-time, optionally followed
\* by one offset or by Z (Python 3.11 and later); anything else is ValueError
FromIsoformatOk(timestamp_str) ==
    /\ Len(timestamp_str) \in {1, 2}
    /\ IsDateTime(timestamp_str[1])
    /\ Len(timestamp_str) = 2 =>
           timestamp_str[2] \in { "+00:00", "-00:00", "Z" }

\* variant: the table is created without the primary key
PrimaryKeyViolated_NoKey(table, alert_id) == FALSE

\* the alerts table has PRIMARY KEY (alert_id)
PrimaryKeyViolated(table, alert_id) ==
    \E i \in 1..Len(table) : table[i].alert_id = alert_id

AlertRow(alert_payload) ==
    [ alert_id |-> alert_payload.alert_id,
      correlation_id |-> Get(alert_payload, "correlation_id", -1),
      timestamp |-> NormalizeTimestamp(alert_payload.timestamp),
      alert_name |-> Get(alert_payload, "alert_name", "None") ]

\* PostgreSQLService.insert_alert: outcome is "True", "False" or
\* "UniqueViolation" (re-raised to the caller)
InsertOutcome(pl, tbl, outcome, executed) ==
    [ pool |-> pl, rows |-> tbl, outcome |-> outcome, executed |-> executed ]

insert_alert(alert_payload, dbFault) ==
    IF ~pool
    THEN InsertOutcome(pool, rows, "False", FALSE)
    ELSE IF dbFault = "OperationalErrorOnConnect"
    THEN InsertOutcome(FALSE, rows, "False", FALSE)
    ELSE IF "timestamp" \notin DOMAIN alert_payload
    THEN \* KeyError
         InsertOutcome(pool, rows, "False", FALSE)
    ELSE IF ~FromIsoformatOk(NormalizeTimestamp(alert_payload.timestamp))
    THEN \* ValueError: except Exception
         InsertOutcome(pool, rows, "False", FALSE)
    ELSE IF dbFault = "OperationalErrorOnExecute"
    THEN InsertOutcome(FALSE, rows, "False", FALSE)
    ELSE IF dbFault = "DataError" \/ "alert_id" \notin DOMAIN alert_payload
    THEN \* a column rejects its value: except Exception
         InsertOutcome(pool, rows, "False", TRUE)
    ELSE IF PrimaryKeyViolated(rows, alert_payload.alert_id)
    THEN InsertOutcome(pool, rows, "UniqueViolation", TRUE)
    ELSE IF dbFault = "OperationalErrorAfterCommit"
    THEN \* the server committed, the reply was lost
         InsertOutcome(FALSE, Append(rows, AlertRow(alert_payload)), "False", TRUE)
    ELSE InsertOutcome(pool, Append(rows, AlertRow(alert_payload)), "True", TRUE)

\* variant: no `except UniqueViolation` clause, the generic handler requeues
OnInsertOutcome_NoDuplicateClause(outcome) ==
    IF outcome = "True" THEN "Ack" ELSE "NackRequeue"

\* lines 140-149 and 156-158 of on_message_callback: ack on success and on
\* UniqueViolation, nack with requeue=True when insert_alert returned False
OnInsertOutcome(outcome) ==
    IF outcome = "True" THEN "Ack"
    ELSE IF outcome = "UniqueViolation" THEN "Ack"
    ELSE "NackRequeue"

\* the basic_ack / basic_nack calls of the persistence handler: every branch
\* of the try block makes one; an exception before the try block makes none
AlertSettleCalls(decision) == IF decision = "Raise" THEN 0 ELSE 1

\* RabbitMQConsumer.on_message_callback: the outcome of the dispatch
DispatchAlert(body, dbFault) ==
    LET none == InsertOutcome(pool, rows, "none", FALSE)
    IN
    IF ~body.head
    THEN \* body[:100].decode() in the first debug line, outside the try block
         [ w |-> none, writer |-> FALSE, decision |-> "Raise" ]
    ELSE IF body.json = "invalid"
    THEN [ w |-> none, writer |-> FALSE, decision |-> "NackDrop" ]
    ELSE IF body.json # "object"
    THEN \* alert_payload.get raises AttributeError: except Exception
         [ w |-> none, writer |-> FALSE, decision |-> "NackRequeue" ]
    ELSE LET w == insert_alert(body.obj, dbFault)
         IN  [ w |-> w, writer |-> TRUE,
               decision |-> OnInsertOutcome(w.outcome) ]

\* main_task up to start_consuming: initialize_pool raises on failure and
\* main_task ends; on success the alerts table exists and consuming starts
main_task(ok) ==
    /\ notif_pc = "start"
    /\ pool' = ok
    /\ notif_pc' = IF ok THEN "consuming" ELSE "crashed"
    /\ last' = NoDelivery
    /\ UNCHANGED << threadVars, consumers, now, ticks, analysisVars, rows, deliveries, lifecycleVars, notifierVars, unreferenced >>

\* RabbitMQConsumer.on_message_callback, one task per delivery
alert_on_message_callback(body, dbFault) ==
    /\ notif_pc = "consuming"
    /\ deliveries < MaxDeliveries
    /\ LET d == DispatchAlert(body, dbFault)
       IN  /\ pool' = d.w.pool
           /\ rows' = d.w.rows
           /\ last' = [ NoDelivery EXCEPT
                          !.stage = "persistence", !.body = body,
                          !.decision = d.decision, !.writer = d.writer,
                          !.outcome = d.w.outcome, !.executed = d.w.executed,
                          !.settles = AlertSettleCalls(d.decision),
                          !.dbFault = dbFault ]
    /\ deliveries' = deliveries + 1
    /\ UNCHANGED << threadVars, consumers, now, ticks, analysisVars, notif_pc, lifecycleVars, notifierVars, unreferenced >>

\* the broker delivers again the message the handler has just nacked with
\* requeue=True; the same handler runs on it
alert_redelivered(dbFault) ==
    /\ notif_pc = "consuming"
    /\ last.stage = "persistence"
    /\ last.decision = "NackRequeue"
    /\ LET d == DispatchAlert(last.body, dbFault)
       IN  /\ pool' = d.w.pool
           /\ rows' = d.w.rows
           /\ last' = [ NoDelivery EXCEPT
                          !.stage = "persistence", !.body = last.body,
                          !.decision = d.decision, !.writer = d.writer,
                          !.outcome = d.w.outcome, !.executed = d.w.executed,
                          !.settles = AlertSettleCalls(d.decision),
                          !.dbFault = dbFault ]
    /\ UNCHANGED << threadVars, consumers, now, ticks, analysisVars, notif_pc, deliveries, lifecycleVars, notifierVars, unreferenced >>

\* an alert goes from the publisher to the persistence handler:
\* _publish_alert line 95 has written it as JSON text, the broker hands the
\* text of the i-th published alert over, and on_message_callback line 131
\* reads it back before it goes on as for any body
alert_delivered(i, dbFault) ==
    /\ notif_pc = "consuming"
    /\ deliveries < MaxDeliveries
    /\ i \in DOMAIN alerts_queue
    /\ LET message == JsonDumps(alerts_queue[i])
           body == JsonBody(JsonLoads(message))
           d == DispatchAlert(body, dbFault)
       IN  /\ pool' = d.w.pool
           /\ rows' = d.w.rows
           /\ last' = [ NoDelivery EXCEPT
                          !.stage = "persistence", !.body = body,
                          !.alert = << alerts_queue[i] >>,
                          !.decision = d.decision, !.writer = d.writer,
                          !.outcome = d.w.outcome, !.executed = d.w.executed,
                          !.settles = AlertSettleCalls(d.decision),
                          !.dbFault = dbFault ]
    /\ deliveries' = deliveries + 1
    /\ UNCHANGED << threadVars, consumers, now, ticks, analysisVars, notif_pc,
                    lifecycleVars, notifierVars, unreferenced >>

(***************************************************************************)
(* Specification                                                           *)
(***************************************************************************)
\* the service instances that call the rate limiter for the same subject
Callers == { "c1", "c2" }

\* the threads that call the health setters
Threads == { "t1", "t2" }

\* the two components health_manager keeps a flag and a gauge for
Components == { "redis", "rabbitmq" }

\* a caller that has no pipeline under way
IdleCall ==
    [ pc |-> "idle", time |-> 0, before |-> {}, completed |-> {},
      results |-> << >>, count |-> -1 ]

\* a thread that is in no setter
IdleSetter == [ pc |-> "idle", component |-> "redis", status |-> FALSE ]

Init ==
    /\ now = 0
    /\ ticks = 0
    /\ redis_client = FALSE
    /\ zsets = [ k \in Keys |-> {} ]
    /\ expiry = [ k \in Keys |-> -1 ]
    /\ connection = "None"
    /\ consumer_channel = "None"
    /\ publisher_channel = "None"
    /\ health = [ redis |-> FALSE, rabbitmq |-> FALSE ]
    /\ alerts_queue = << >>
    /\ nextUuid = 1
    /\ pool = FALSE
    /\ rows = << >>
    /\ notif_pc = "start"
    /\ deliveries = 0
    /\ last = NoDelivery
    /\ redis_up = TRUE
    /\ broker = "up"
    /\ consumer_pc = "loop"
    /\ unreferenced = FALSE
    /\ closing_ops = << >>
    /\ self_connection = "None"
    /\ self_channel = "None"
    /\ connected = FALSE
    /\ closing = FALSE
    /\ consumer_tag = FALSE
    /\ in_flight = {}
    /\ unacked = {}
    /\ requeued = {}
    /\ consumers = [ analysis |-> 0, persistence |-> 0 ]
    /\ calls = [ c \in Callers |-> IdleCall ]
    /\ added_entries = {}
    /\ gauges = [ redis |-> 0, rabbitmq |-> 0 ]
    /\ setters = [ t \in Threads |-> IdleSetter ]
    /\ setter_log = << >>
    /\ observed = [ redis |-> FALSE, rabbitmq |-> FALSE ]

\* a fault is an input of a delivery only where the handler can meet it
RedisFaultsFor(body) ==
    IF IsFailedLogin(body) THEN RedisFaults ELSE { "none" }

PublishFaultsFor(body) ==
    IF IsFailedLogin(body) \/ IsFileModified(body)
    THEN PublishFaults ELSE { "none" }

DbFaultsFor(body) ==
    IF body.json = "object" /\ body.utf8 THEN DbFaults ELSE { "none" }

\* the analysis stage
Next ==
    \/ \E ok \in BOOLEAN : initialize_redis(ok)
    \/ \E outcome \in ConnectOutcomes : connect_rabbitmq_channels(outcome)
    \/ PublisherChannelClosed
    \/ \E body \in EventBodies :
         \E rf \in RedisFaultsFor(body), pf \in PublishFaultsFor(body) :
           on_message_callback(body, rf, pf)
    \/ \E d \in ClockSteps : Tick(d)

Spec == Init /\ [][Next]_vars

\* the persistence stage
NextPersist ==
    \/ \E ok \in BOOLEAN : main_task(ok)
    \/ \E body \in AlertBodies :
         \E df \in DbFaultsFor(body) : alert_on_message_callback(body, df)

SpecPersist == Init /\ [][NextPersist]_vars

\* the persistence stage with the broker's redelivery: a message nacked with
\* requeue=True goes back to the head of the queue and is delivered next
alert_delivered_next(body, dbFault) ==
    /\ last.decision # "NackRequeue"
    /\ alert_on_message_callback(body, dbFault)

NextPersistRetry ==
    \/ \E ok \in BOOLEAN : main_task(ok)
    \/ \E body \in AlertBodies :
         \E df \in DbFaultsFor(body) : alert_delivered_next(body, df)
    \/ \E df \in DbFaults : alert_redelivered(df)

\* the events whose alerts are followed from one stage to the other; the
\* second has a quote in the user name and a backslash in the path
TransitBodies ==
    { JsonBody(FileEvent(204, <<"alice">>, <<"h1">>, <<"/etc", "/passwd">>)),
      JsonBody(FileEvent(208, <<"al", "\"", "ice">>, <<"h1">>,
                         <<"/etc", "/passwd", "\\">>)) }

\* both stages: events are analysed, alerts published, delivered and stored
NextTransit ==
    \/ initialize_redis(TRUE)
    \/ connect_rabbitmq_channels("ok")
    \/ \E body \in TransitBodies : on_message_callback(body, "none", "none")
    \/ Tick(5)
    \/ main_task(TRUE)
    \/ \E i \in 1..MaxDeliveries : alert_delivered(i, "none")

SpecTransit == Init /\ [][NextTransit]_vars

\* the database comes back: a redelivery that meets no database fault is
\* not put off forever
SpecPersistRetry ==
    Init /\ [][NextPersistRetry]_vars /\ WF_vars(alert_redelivered("none"))

\* the clock steps of the rules specification (seconds)
RuleClockSteps == {5, 70}

\* basic_publish can fail for the one rule that publishes in this stage
RulePublishFaultsFor(body) ==
    IF IsFileModified(body) THEN { "none", "Exception" } ELSE { "none" }

\* the analysis stage on the bodies that tell the rules apart
NextRules ==
    \/ initialize_redis(TRUE)
    \/ connect_rabbitmq_channels("ok")
    \/ \E body \in RuleBodies :
         \E pf \in RulePublishFaultsFor(body) :
           on_message_callback(body, "none", pf)
    \/ \E d \in RuleClockSteps : Tick(d)

SpecRules == Init /\ [][NextRules]_vars

(***************************************************************************)
(* Analysis stage: the reconnect loop of start_consumer                    *)
(***************************************************************************)
\* what the broker does to a client: it serves it ("up"), it cannot be
\* reached ("down"), or it refuses to open a channel or to declare a queue
BrokerStates ==
    { "up", "down", "refuses_channel", "refuses_consumer_queue",
      "refuses_publisher_queue" }

\* how connect_rabbitmq_channels goes against a broker in a given state
OutcomesFor(b) ==
    IF b = "up" THEN { "ok" }
    ELSE IF b = "down" THEN { "AMQPConnectionError", "Exception" }
    ELSE IF b = "refuses_channel" THEN { "channel_open_failed" }
    ELSE IF b = "refuses_consumer_queue" THEN { "consumer_declare_failed" }
    ELSE { "publisher_declare_failed" }

\* the bodies delivered while the reconnect loop is explored
LoopBodies ==
    { MalformedBody,
      JsonBody(FileEvent(204, <<"alice">>, <<"h1">>, <<"/etc", "/passwd">>)) }

\* the condition of line 312, negated
AllOpen ==
    /\ connection = "open"
    /\ consumer_channel = "open"
    /\ publisher_channel = "open"

\* variant: when the store does not answer the function returns
loop_initialize_redis_ReturnsOnFailure ==
    /\ consumer_pc = "loop"
    /\ redis_client' = redis_up
    /\ health' = [ health EXCEPT !.redis = redis_up ]
    /\ consumer_pc' = IF redis_up THEN "check" ELSE "returned"
    /\ last' = NoDelivery
    /\ gauges' = GaugeValues(health')
    /\ UNCHANGED << calls, added_entries, setters, setter_log, observed, consumers, now, ticks, zsets, expiry, connection, consumer_channel,
                    publisher_channel, alerts_queue, nextUuid, persistVars,
                    deliveries, redis_up, broker, unreferenced, closing_ops,
                    notifierVars >>

\* lines 305-308: initialize_redis at the top of the loop; on failure the
\* loop sleeps and starts over
loop_initialize_redis ==
    /\ consumer_pc = "loop"
    /\ redis_client' = redis_up
    /\ health' = [ health EXCEPT !.redis = redis_up ]
    /\ consumer_pc' = IF redis_up THEN "check" ELSE "loop"
    /\ last' = NoDelivery
    /\ gauges' = GaugeValues(health')
    /\ UNCHANGED << calls, added_entries, setters, setter_log, observed, consumers, now, ticks, zsets, expiry, connection, consumer_channel,
                    publisher_channel, alerts_queue, nextUuid, persistVars,
                    deliveries, redis_up, broker, unreferenced, closing_ops,
                    notifierVars >>

\* lines 312-325: connect unless everything is open, then basic_consume and
\* start_consuming; a failed connect sleeps and starts over
loop_connect(outcome) ==
    /\ consumer_pc = "check"
    /\ IF AllOpen
       THEN /\ outcome = "ok"
            /\ consumer_pc' = "consume"
            /\ UNCHANGED << connection, consumer_channel, publisher_channel,
                            health, unreferenced >>
       ELSE /\ outcome \in OutcomesFor(broker)
            /\ LET c == ConnectResult(outcome)
               IN  /\ connection' = c.connection
                   /\ consumer_channel' = c.consumer_channel
                   /\ publisher_channel' = c.publisher_channel
                   /\ health' = [ health EXCEPT !.rabbitmq = c.rabbitmq ]
                   /\ unreferenced' = c.unreferenced
                   /\ consumer_pc' = IF c.ret THEN "consume" ELSE "loop"
    /\ last' = IF AllOpen THEN NoDelivery
               ELSE [ NoDelivery EXCEPT
                        !.stage = "connect", !.outcome = outcome,
                        !.ret = IF ConnectResult(outcome).ret
                                THEN "True" ELSE "False" ]
    /\ consumers' = IF AllOpen \/ ConnectResult(outcome).ret
                    THEN [ consumers EXCEPT !.analysis = @ + 1 ]
                    ELSE consumers
    /\ gauges' = GaugeValues(health')
    /\ UNCHANGED << calls, added_entries, setters, setter_log, observed, now, ticks, redis_client, zsets, expiry, alerts_queue,
                    nextUuid, persistVars, deliveries, redis_up, broker,
                    closing_ops, notifierVars >>

\* variant: the handler resets the handles and leaves the health flag alone
OnLoopException_KeepsHealth(st) ==
    [ st EXCEPT !.connection = "None",
                !.consumer_channel = "None",
                !.publisher_channel = "None" ]

\* lines 339-347: `except Exception` of the loop
OnLoopException(st) ==
    [ st EXCEPT !.health.rabbitmq = FALSE,
                !.connection = "None",
                !.consumer_channel = "None",
                !.publisher_channel = "None" ]

\* one delivery handled inside start_consuming; an exception that leaves
\* on_message_callback leaves start_consuming too and reaches line 339
consume_delivery(body, pubFault) ==
    /\ consumer_pc = "consume"
    /\ consumer_channel = "open"
    /\ deliveries < MaxDeliveries
    /\ LET d == DispatchEvent(body, "none", pubFault)
           raised == d.decision = "Raise"
           st == IF raised THEN OnLoopException(d.r.st) ELSE d.r.st
       IN  /\ zsets' = st.zsets
           /\ expiry' = st.expiry
           /\ health' = st.health
           /\ alerts_queue' = st.alerts_queue
           /\ nextUuid' = st.nextUuid
           /\ connection' = st.connection
           /\ consumer_channel' = st.consumer_channel
           /\ publisher_channel' = st.publisher_channel
           /\ consumer_pc' = IF raised THEN "loop" ELSE "consume"
           /\ last' = [ NoDelivery EXCEPT
                          !.stage = "analysis", !.body = body,
                          !.decision = d.decision, !.rules = d.rules,
                          !.pubFault = pubFault,
                          !.ret = d.r.ret, !.alert = d.r.alert,
                          !.settles = SettleCalls(body, d.r.st),
                          !.processed = MetricsIncrements(body),
                          !.consumed = MetricsIncrements(body),
                          !.time = now ]
    /\ deliveries' = deliveries + 1
    /\ consumers' = LET d == DispatchEvent(body, "none", pubFault)
                    IN  IF d.decision # "Raise"
                           /\ d.r.st.consumer_channel = "open"
                        THEN consumers
                        ELSE [ consumers EXCEPT !.analysis = 0 ]
    /\ gauges' = GaugeValues(health')
    /\ UNCHANGED << calls, added_entries, setters, setter_log, observed, now, ticks, redis_client, persistVars, redis_up, broker,
                    unreferenced, closing_ops, notifierVars >>

\* lines 327-333: start_consuming raises AMQPConnectionError, the transport
\* is gone and pika has closed the connection
connection_lost ==
    /\ consumer_pc = "consume"
    /\ broker = "down"
    /\ health' = [ health EXCEPT !.rabbitmq = FALSE ]
    /\ connection' = "None"
    /\ consumer_channel' = "None"
    /\ publisher_channel' = "None"
    /\ consumer_pc' = "loop"
    /\ last' = NoDelivery
    /\ consumers' = [ consumers EXCEPT !.analysis = 0 ]
    /\ gauges' = GaugeValues(health')
    /\ UNCHANGED << calls, added_entries, setters, setter_log, observed, now, ticks, redis_client, zsets, expiry, alerts_queue,
                    nextUuid, persistVars, deliveries, redis_up, broker,
                    unreferenced, closing_ops, notifierVars >>

\* line 326: start_consuming returns because the broker cancelled the consumer
consumer_cancelled ==
    /\ consumer_pc = "consume"
    /\ consumer_pc' = "loop"
    /\ last' = NoDelivery
    /\ consumers' = [ consumers EXCEPT !.analysis = 0 ]
    /\ UNCHANGED << threadVars, now, ticks, analysisVars, persistVars, deliveries,
                    redis_up, broker, unreferenced, closing_ops,
                    notifierVars >>

\* lines 339-347: another exception leaves start_consuming (the broker closed
\* the consumer channel); the connection is closed if it is open
unexpected_error ==
    /\ consumer_pc = "consume"
    /\ LET st == OnLoopException(AnalysisState)
       IN  /\ health' = st.health
           /\ connection' = st.connection
           /\ consumer_channel' = st.consumer_channel
           /\ publisher_channel' = st.publisher_channel
    /\ consumer_pc' = "loop"
    /\ last' = NoDelivery
    /\ consumers' = [ consumers EXCEPT !.analysis = 0 ]
    /\ gauges' = GaugeValues(health')
    /\ UNCHANGED << calls, added_entries, setters, setter_log, observed, now, ticks, redis_client, zsets, expiry, alerts_queue,
                    nextUuid, persistVars, deliveries, redis_up, broker,
                    unreferenced, closing_ops, notifierVars >>

\* the channels of the analysis connection that are open
OpenChannels ==
    { c \in { "consumer_channel", "publisher_channel" } :
        IF c = "consumer_channel" THEN consumer_channel = "open"
        ELSE publisher_channel = "open" }

\* lines 334-338: KeyboardInterrupt; connection.close() is the only call,
\* the channels close with the connection
keyboard_interrupt ==
    /\ consumer_pc = "consume"
    /\ IF connection = "open"
       THEN /\ closing_ops' =
                 Append(closing_ops,
                        [ stage |-> "analysis", op |-> "connection.close",
                          consuming |-> consumer_channel = "open",
                          open_channels |-> OpenChannels, raised |-> FALSE ])
            /\ connection' = "closed"
            /\ consumer_channel' =
                 IF consumer_channel = "open" THEN "closed" ELSE consumer_channel
            /\ publisher_channel' =
                 IF publisher_channel = "open" THEN "closed" ELSE publisher_channel
       ELSE UNCHANGED << closing_ops, connection, consumer_channel,
                         publisher_channel >>
    /\ consumer_pc' = "stopped"
    /\ last' = NoDelivery
    /\ consumers' = IF connection = "open"
                    THEN [ consumers EXCEPT !.analysis = 0 ]
                    ELSE consumers
    /\ UNCHANGED << threadVars, now, ticks, redis_client, zsets, expiry, health,
                    alerts_queue, nextUuid, persistVars, deliveries, redis_up,
                    broker, unreferenced, notifierVars >>

\* the environment: the store goes away or comes back
redis_changes ==
    /\ redis_up' = ~redis_up
    /\ last' = NoDelivery
    /\ UNCHANGED << threadVars, consumers, now, ticks, analysisVars, persistVars, deliveries, broker,
                    consumer_pc, unreferenced, closing_ops, notifierVars >>

\* the environment: the broker changes what it does
broker_changes(b) ==
    /\ b # broker
    /\ broker' = b
    /\ last' = NoDelivery
    /\ UNCHANGED << threadVars, consumers, now, ticks, analysisVars, persistVars, deliveries,
                    redis_up, consumer_pc, unreferenced, closing_ops,
                    notifierVars >>

\* a step of start_consumer's own control flow
LoopStep ==
    \/ loop_initialize_redis
    \/ \E outcome \in ConnectOutcomes : loop_connect(outcome)

NextConsumer ==
    \/ loop_initialize_redis
    \/ \E outcome \in ConnectOutcomes : loop_connect(outcome)
    \/ \E body \in LoopBodies :
         \E pf \in PublishFaultsFor(body) : consume_delivery(body, pf)
    \/ connection_lost
    \/ consumer_cancelled
    \/ unexpected_error
    \/ keyboard_interrupt
    \/ PublisherChannelClosed
    \/ redis_changes
    \/ \E b \in BrokerStates : broker_changes(b)

SpecConsumer == Init /\ [][NextConsumer]_vars

\* the loop is a running thread: a step it can take is taken
SpecConsumerFair == SpecConsumer /\ WF_vars(LoopStep)

(***************************************************************************)
(* Persistence stage: main_task and the RabbitMQConsumer object            *)
(***************************************************************************)
\* what the persistence stage leaves alone
analysisSide ==
    << now, ticks, analysisVars, redis_up, consumer_pc, unreferenced >>

\* the bodies delivered while the life of the consumer object is explored
NotifierBodies ==
    { NotUtf8Body,
      JsonBody(AlertMessage(101, <<"10", "+00:00", "Z">>)) }

\* what the broker does that the persistence stage can tell apart: it
\* declares one queue only, and a refused channel hangs connect as a refused
\* queue does
NotifierBrokerStates == { "up", "down", "refuses_publisher_queue" }

\* main_task lines 128-131: initialize_pool gives up after its attempts and
\* re-raises, which ends main_task
main_initialize_pool(ok) ==
    /\ notif_pc = "start"
    /\ pool' = ok
    /\ notif_pc' = IF ok THEN "connect" ELSE "crashed"
    /\ last' = NoDelivery
    /\ UNCHANGED << threadVars, consumers, analysisSide, rows, deliveries, broker, closing_ops,
                    notifierVars >>

\* main_task line 137 and RabbitMQConsumer.connect: the returned value is not
\* looked at.  Against a broker that does not open the channel or refuses the
\* alert queue the future awaited on line 57 or 67 is never resolved.
connect ==
    /\ notif_pc = "connect"
    /\ IF broker = "down"
       THEN /\ self_connection' = "None"
            /\ self_channel' = "None"
            /\ connected' = FALSE
            /\ notif_pc' = "start_consuming"
       ELSE IF broker \in { "refuses_channel", "refuses_publisher_queue" }
       THEN /\ self_connection' = "open"
            /\ self_channel' = "None"
            /\ connected' = TRUE
            /\ notif_pc' = "hung"
       ELSE /\ self_connection' = "open"
            /\ self_channel' = "open"
            /\ connected' = TRUE
            /\ notif_pc' = "start_consuming"
    /\ last' = NoDelivery
    /\ UNCHANGED << threadVars, consumers, analysisSide, pool, rows, deliveries, broker, closing_ops,
                    closing, consumer_tag, in_flight, unacked, requeued >>

\* RabbitMQConsumer.start_consuming, run once as consumer_task; main_task
\* then waits for the stop event
start_consuming ==
    /\ notif_pc = "start_consuming"
    /\ consumer_tag' =
         IF self_channel = "None" THEN consumer_tag
         ELSE IF consumer_tag THEN consumer_tag
         ELSE TRUE
    /\ notif_pc' = "waiting"
    /\ last' = NoDelivery
    /\ consumers' = IF self_channel # "None" /\ ~consumer_tag
                    THEN [ consumers EXCEPT !.persistence = @ + 1 ]
                    ELSE consumers
    /\ UNCHANGED << threadVars, analysisSide, pool, rows, deliveries, broker, closing_ops,
                    self_connection, self_channel, connected, closing,
                    in_flight, unacked, requeued >>

\* the broker delivers to this consumer: the service runs, the consumer is
\* registered and not cancelled, connection and channel are open
NotifierConsuming ==
    /\ notif_pc \in { "waiting", "cancelled", "closed" }
    /\ consumers.persistence > 0
    /\ self_connection = "open"
    /\ self_channel = "open"

\* line 174: every delivery is handed to a task of its own; no basic_qos is
\* set, so the broker does not wait for a settlement before the next one
deliver(body) ==
    /\ NotifierConsuming
    /\ broker # "down"
    /\ deliveries < MaxDeliveries
    /\ in_flight' = in_flight \cup { [ tag |-> deliveries + 1, body |-> body ] }
    /\ unacked' = unacked \cup { deliveries + 1 }
    /\ deliveries' = deliveries + 1
    /\ last' = NoDelivery
    /\ UNCHANGED << threadVars, consumers, analysisSide, persistVars, broker, closing_ops,
                    self_connection, self_channel, connected, closing,
                    consumer_tag, requeued >>

\* ch.basic_ack / ch.basic_nack of the persistence handler: on a channel that
\* is closed both raise, the `except Exception` clause's own basic_nack
\* raises again and the task ends without a settlement
SettleAlert(decision) ==
    IF self_channel = "open" THEN decision ELSE "Raise"

\* a task created on line 174 runs on_message_callback to its end
task_runs(t, dbFault) ==
    /\ notif_pc \in { "waiting", "cancelled", "closed" }
    /\ t \in in_flight
    /\ LET d == DispatchAlert(t.body, dbFault)
           decision == SettleAlert(d.decision)
       IN  /\ pool' = d.w.pool
           /\ rows' = d.w.rows
           /\ unacked' = IF decision = "Raise" THEN unacked
                         ELSE unacked \ { t.tag }
           /\ requeued' = IF decision = "NackRequeue"
                          THEN requeued \cup { t.tag } ELSE requeued
           /\ last' = [ NoDelivery EXCEPT
                          !.stage = "persistence", !.body = t.body,
                          !.decision = decision, !.writer = d.writer,
                          !.outcome = d.w.outcome, !.executed = d.w.executed,
                          !.settles = IF d.decision = "Raise" THEN 0
                                      ELSE IF self_channel = "open" THEN 1
                                      ELSE IF d.writer THEN 2 ELSE 1,
                          !.dbFault = dbFault ]
    /\ in_flight' = in_flight \ { t }
    /\ UNCHANGED << threadVars, consumers, analysisSide, notif_pc, deliveries, broker, closing_ops,
                    self_connection, self_channel, connected, closing,
                    consumer_tag >>

\* RabbitMQConsumer.on_connection_closed, called by pika when the transport
\* is lost: the handles are forgotten and nothing reconnects; the broker
\* takes back what the channel had not settled
on_connection_closed ==
    /\ notif_pc \in { "waiting", "hung" }
    /\ self_connection = "open"
    /\ broker = "down"
    /\ self_connection' = "None"
    /\ self_channel' = "None"
    /\ connected' = FALSE
    /\ requeued' = requeued \cup unacked
    /\ unacked' = {}
    /\ last' = NoDelivery
    /\ consumers' = [ consumers EXCEPT !.persistence = 0 ]
    /\ UNCHANGED << threadVars, analysisSide, persistVars, deliveries, broker, closing_ops,
                    closing, consumer_tag, in_flight >>

\* RabbitMQConsumer.on_channel_closed, called by pika when the broker closes
\* the channel
on_channel_closed ==
    /\ notif_pc = "waiting"
    /\ self_channel = "open"
    /\ self_channel' = "None"
    /\ requeued' = requeued \cup unacked
    /\ unacked' = {}
    /\ last' = NoDelivery
    /\ consumers' = [ consumers EXCEPT !.persistence = 0 ]
    /\ UNCHANGED << threadVars, analysisSide, persistVars, deliveries, broker, closing_ops,
                    self_connection, connected, closing, consumer_tag,
                    in_flight >>

\* one close operation of the persistence stage
NotifierOp(op, consuming, open_channels, raised) ==
    [ stage |-> "persistence", op |-> op, consuming |-> consuming,
      open_channels |-> open_channels, raised |-> raised ]

\* variant: disconnect goes on to close without cancelling the consumer
disconnect_cancel_NoCancel(cancel_raises) ==
    /\ notif_pc = "waiting"
    /\ ~cancel_raises
    /\ closing' = TRUE
    /\ notif_pc' = "cancelled"
    /\ last' = NoDelivery
    /\ UNCHANGED << threadVars, consumers, analysisSide, pool, rows, deliveries, broker, closing_ops,
                    self_connection, self_channel, connected, consumer_tag,
                    in_flight, unacked, requeued >>

\* main_task lines 145-164 and disconnect lines 180-191: the stop event is
\* set, the background tasks are cancelled, disconnect marks the consumer as
\* closing and cancels the consumer if the channel is open, then sleeps.
\* When basic_cancel raises, the sleep and the reset of the tag are skipped:
\* the error is logged and disconnect goes on at once (cancel_failed).
disconnect_cancel(cancel_raises) ==
    /\ notif_pc = "waiting"
    /\ cancel_raises => (self_channel = "open" /\ consumer_tag)
    /\ closing' = TRUE
    /\ IF self_channel = "open" /\ consumer_tag
       THEN /\ closing_ops' =
                 Append(closing_ops,
                        NotifierOp("basic_cancel", TRUE, { "channel" },
                                   cancel_raises))
            /\ consumer_tag' = IF cancel_raises THEN consumer_tag ELSE FALSE
       ELSE UNCHANGED << closing_ops, consumer_tag >>
    /\ notif_pc' = IF cancel_raises THEN "cancel_failed" ELSE "cancelled"
    /\ last' = NoDelivery
    /\ consumers' = IF self_channel = "open" /\ consumer_tag /\ ~cancel_raises
                    THEN [ consumers EXCEPT !.persistence = 0 ]
                    ELSE consumers
    /\ UNCHANGED << threadVars, analysisSide, pool, rows, deliveries, broker,
                    self_connection, self_channel, connected, in_flight,
                    unacked, requeued >>

\* variant: an error of channel.close ends disconnect's closing
disconnect_close_StopsOnError(channel_raises, connection_raises) ==
    /\ notif_pc \in { "cancelled", "cancel_failed" }
    /\ channel_raises => self_channel = "open"
    /\ connection_raises => self_connection = "open"
    /\ closing_ops' =
         closing_ops
         \o (IF self_channel = "open"
             THEN << NotifierOp("channel.close", consumer_tag, { "channel" },
                                channel_raises) >>
             ELSE << >>)
         \o (IF self_connection = "open" /\ ~channel_raises
             THEN << NotifierOp("connection.close", FALSE, {},
                                connection_raises) >>
             ELSE << >>)
    /\ self_channel' = IF self_channel = "open" THEN "closed" ELSE self_channel
    /\ self_connection' =
         IF self_connection = "open" THEN "closed" ELSE self_connection
    /\ requeued' = IF self_channel = "open" THEN requeued \cup unacked
                   ELSE requeued
    /\ unacked' = IF self_channel = "open" THEN {} ELSE unacked
    /\ notif_pc' = "closed"
    /\ last' = NoDelivery
    /\ consumers' = IF self_channel = "open"
                    THEN [ consumers EXCEPT !.persistence = 0 ]
                    ELSE consumers
    /\ UNCHANGED << threadVars, analysisSide, pool, rows, deliveries, broker, connected,
                    closing, consumer_tag, in_flight >>

\* disconnect lines 192-206: the channel is closed if it is open, then the
\* connection if it is open, then disconnect sleeps; the broker takes back
\* what the channel had not settled.  An error raised by either close call
\* is logged and disconnect goes on; pika raises from close() when the
\* channel or connection is already on its way down, so it ends closed.
disconnect_close(channel_raises, connection_raises) ==
    /\ notif_pc \in { "cancelled", "cancel_failed" }
    /\ channel_raises => self_channel = "open"
    /\ connection_raises => self_connection = "open"
    /\ closing_ops' =
         closing_ops
         \o (IF self_channel = "open"
             THEN << NotifierOp("channel.close", consumer_tag, { "channel" },
                                channel_raises) >>
             ELSE << >>)
         \o (IF self_connection = "open"
             THEN << NotifierOp("connection.close", FALSE, {},
                                connection_raises) >>
             ELSE << >>)
    /\ self_channel' = IF self_channel = "open" THEN "closed" ELSE self_channel
    /\ self_connection' =
         IF self_connection = "open" THEN "closed" ELSE self_connection
    /\ requeued' = IF self_channel = "open" THEN requeued \cup unacked
                   ELSE requeued
    /\ unacked' = IF self_channel = "open" THEN {} ELSE unacked
    /\ notif_pc' = "closed"
    /\ last' = NoDelivery
    /\ consumers' = IF self_channel = "open"
                    THEN [ consumers EXCEPT !.persistence = 0 ]
                    ELSE consumers
    /\ UNCHANGED << threadVars, analysisSide, pool, rows, deliveries, broker, connected,
                    closing, consumer_tag, in_flight >>

\* disconnect lines 208-211 and main_task lines 166-169: the handles are
\* forgotten, the pool is closed and main_task ends
disconnect_finish ==
    /\ notif_pc = "closed"
    /\ self_connection' = "None"
    /\ self_channel' = "None"
    /\ connected' = FALSE
    /\ pool' = FALSE
    /\ notif_pc' = "stopped"
    /\ last' = NoDelivery
    /\ UNCHANGED << threadVars, consumers, analysisSide, rows, deliveries, broker, closing_ops,
                    closing, consumer_tag, in_flight, unacked, requeued >>

\* a step of the persistence stage's own control flow
NotifierStep ==
    \/ \E ok \in BOOLEAN : main_initialize_pool(ok)
    \/ connect
    \/ start_consuming
    \/ \E t \in in_flight : \E df \in DbFaultsFor(t.body) : task_runs(t, df)
    \/ \E cr, nr \in BOOLEAN : disconnect_close(cr, nr)
    \/ disconnect_finish

NextNotifier ==
    \/ \E ok \in BOOLEAN : main_initialize_pool(ok)
    \/ connect
    \/ start_consuming
    \/ \E body \in NotifierBodies : deliver(body)
    \/ \E t \in in_flight : \E df \in DbFaultsFor(t.body) : task_runs(t, df)
    \/ on_connection_closed
    \/ on_channel_closed
    \/ \E r \in BOOLEAN : disconnect_cancel(r)
    \/ \E cr, nr \in BOOLEAN : disconnect_close(cr, nr)
    \/ disconnect_finish
    \/ \E b \in NotifierBrokerStates : broker_changes(b)

SpecNotifier == Init /\ [][NextNotifier]_vars

\* the event loop runs what is ready to run
SpecNotifierFair == SpecNotifier /\ WF_vars(NotifierStep)

\* RabbitMQConsumer.connect called on the running consumer object once more:
\* lines 27-29 return at once while `connected` is set, otherwise a new
\* connection and channel are opened as on the first call
connect_again ==
    /\ notif_pc = "waiting"
    /\ ~closing
    /\ IF connected
       THEN UNCHANGED << self_connection, self_channel, connected >>
       ELSE IF broker = "down"
       THEN /\ self_connection' = "None"
            /\ self_channel' = "None"
            /\ connected' = FALSE
       ELSE IF broker \in { "refuses_channel", "refuses_publisher_queue" }
       THEN /\ self_connection' = "open"
            /\ self_channel' = "None"
            /\ connected' = TRUE
       ELSE /\ self_connection' = "open"
            /\ self_channel' = "open"
            /\ connected' = TRUE
    /\ last' = [ NoDelivery EXCEPT !.stage = "connect_again" ]
    /\ UNCHANGED << threadVars, consumers, analysisSide, persistVars,
                    deliveries, broker, closing_ops, closing, consumer_tag,
                    in_flight, unacked, requeued >>

\* RabbitMQConsumer.start_consuming called once more: lines 163-165 return
\* when there is no channel, lines 167-169 when `_consumer_tag` is set,
\* otherwise basic_consume registers a consumer on the channel
start_consuming_again ==
    /\ notif_pc = "waiting"
    /\ ~closing
    /\ consumer_tag' =
         IF self_channel = "None" THEN consumer_tag
         ELSE IF consumer_tag THEN consumer_tag
         ELSE TRUE
    /\ consumers' = IF self_channel # "None" /\ ~consumer_tag
                    THEN [ consumers EXCEPT !.persistence = @ + 1 ]
                    ELSE consumers
    /\ last' = [ NoDelivery EXCEPT !.stage = "start_consuming" ]
    /\ UNCHANGED << threadVars, analysisSide, persistVars, deliveries, broker,
                    closing_ops, self_connection, self_channel, connected,
                    closing, in_flight, unacked, requeued >>

\* both consumers registering, losing and registering again: the loop of the
\* analysis stage, and the consumer object of the persistence stage whose
\* connect and start_consuming are called again
NextReconsume ==
    \/ loop_initialize_redis
    \/ \E outcome \in ConnectOutcomes : loop_connect(outcome)
    \/ connection_lost
    \/ consumer_cancelled
    \/ unexpected_error
    \/ \E ok \in BOOLEAN : main_initialize_pool(ok)
    \/ connect
    \/ start_consuming
    \/ on_connection_closed
    \/ on_channel_closed
    \/ connect_again
    \/ start_consuming_again
    \/ \E b \in BrokerStates : broker_changes(b)

SpecReconsume == Init /\ [][NextReconsume]_vars

(***************************************************************************)
(* The rate limiter called by several consumers for one subject            *)
(***************************************************************************)
\* what a pipeline call leaves alone
pipelineSide ==
    << redis_client, connection, consumer_channel, publisher_channel, health,
       alerts_queue, nextUuid, persistVars, deliveries, lifecycleVars,
       unreferenced, notifierVars, consumers, gauges, setters, setter_log,
       observed >>

\* the subject the callers report failures of
CallKey == ZsetKey(<< "alice" >>, << "h1" >>)

\* lines 123-133: the caller reads the clock and queues the four commands on
\* a pipeline; nothing has reached the store yet
pipeline_queued(c) ==
    /\ calls[c].pc = "idle"
    /\ calls' = [ calls EXCEPT ![c] =
                    [ IdleCall EXCEPT !.pc = "queued", !.time = now ] ]
    /\ last' = NoDelivery
    /\ UNCHANGED << pipelineSide, now, ticks, zsets, expiry, added_entries >>

\* lines 134-135: pipe.execute() sends the commands as one MULTI/EXEC, which
\* the store runs without running another client's command in between; the
\* scores are the caller's clock reading, EXPIRE counts from the store's now
pipeline_execute(c) ==
    /\ calls[c].pc = "queued"
    /\ LET current_unix_timestamp == calls[c].time
           current_iso_timestamp == IsoTimestampZ(calls[c].time)
           results == PipelineResults(zsets[CallKey], current_iso_timestamp,
                                      current_unix_timestamp)
       IN  /\ zsets' = [ zsets EXCEPT ![CallKey] =
                           PipelineZset(@, current_iso_timestamp,
                                        current_unix_timestamp) ]
           /\ expiry' = [ expiry EXCEPT ![CallKey] =
                            IF results[4] = 1 THEN KeyExpiry(now) ELSE -1 ]
           /\ added_entries' = added_entries \cup { [ member |-> current_iso_timestamp,
                                score |-> current_unix_timestamp ] }
           /\ calls' = [ calls EXCEPT ![c] =
                           [ @ EXCEPT !.pc = "done",
                                      !.before = zsets[CallKey],
                                      !.completed = added_entries,
                                      !.results = results,
                                      !.count = CurrentAttemptsInWindow(results) ] ]
    /\ last' = NoDelivery
    /\ UNCHANGED << pipelineSide, now, ticks >>

\* the rule goes on with the count and returns; the caller is free for its
\* next event
pipeline_returns(c) ==
    /\ calls[c].pc = "done"
    /\ calls' = [ calls EXCEPT ![c] = IdleCall ]
    /\ last' = NoDelivery
    /\ UNCHANGED << pipelineSide, now, ticks, zsets, expiry, added_entries >>

NextPipeline ==
    \/ \E c \in Callers : pipeline_queued(c)
    \/ \E c \in Callers : pipeline_execute(c)
    \/ \E c \in Callers : pipeline_returns(c)
    \/ \E d \in ClockSteps : Tick(d)

SpecPipeline == Init /\ [][NextPipeline]_vars

(***************************************************************************)
(* health_manager called from several threads                              *)
(***************************************************************************)
\* what the health setters and get_health_status leave alone
healthSide ==
    << now, ticks, redis_client, zsets, expiry, connection, consumer_channel,
       publisher_channel, alerts_queue, nextUuid, persistVars, deliveries,
       lifecycleVars, unreferenced, notifierVars, consumers, calls, added_entries >>

\* the calls of a setter made so far
SetterCalls == { i \in DOMAIN setter_log : setter_log[i].ev = "call" }

\* set_redis_status / set_rabbitmq_status, lines 12-14 and 20-22: thread t
\* enters the setter of a component with a status
set_status_enters(t, component, status) ==
    /\ setters[t].pc = "idle"
    /\ Cardinality(SetterCalls) < MaxSetterCalls
    /\ setters' = [ setters EXCEPT ![t] =
                      [ pc |-> "entered", component |-> component,
                        status |-> status ] ]
    /\ setter_log' = Append(setter_log,
                            [ thread |-> t, ev |-> "call",
                              component |-> component, status |-> status ])
    /\ last' = NoDelivery
    /\ UNCHANGED << healthSide, health, gauges, observed >>

\* lines 15-16 and 23-24: the flag is written with _health_lock held, and
\* the lock is released
set_status_writes_flag(t) ==
    /\ setters[t].pc = "entered"
    /\ health' = [ health EXCEPT ![setters[t].component] = setters[t].status ]
    /\ setters' = [ setters EXCEPT ![t].pc = "unlocked" ]
    /\ last' = NoDelivery
    /\ UNCHANGED << healthSide, gauges, setter_log, observed >>

\* lines 17-18 and 25-26: the gauge is set after the lock was released, and
\* the setter returns
set_status_sets_gauge(t) ==
    /\ setters[t].pc = "unlocked"
    /\ gauges' = [ gauges EXCEPT ![setters[t].component] =
                                   GaugeValue(setters[t].status) ]
    /\ setters' = [ setters EXCEPT ![t].pc = "idle" ]
    /\ setter_log' = Append(setter_log,
                            [ thread |-> t, ev |-> "return",
                              component |-> setters[t].component,
                              status |-> setters[t].status ])
    /\ last' = NoDelivery
    /\ UNCHANGED << healthSide, health, observed >>

\* get_health_status, lines 28-31: both flags are read with the lock held
get_health_status ==
    /\ observed' = health
    /\ last' = NoDelivery
    /\ UNCHANGED << healthSide, health, gauges, setters, setter_log >>

NextHealth ==
    \/ \E t \in Threads : \E component \in Components :
         \E status \in BOOLEAN : set_status_enters(t, component, status)
    \/ \E t \in Threads : set_status_writes_flag(t)
    \/ \E t \in Threads : set_status_sets_gauge(t)
    \/ get_health_status

SpecHealth == Init /\ [][NextHealth]_vars

(***************************************************************************)
(* Properties                                                              *)
(***************************************************************************)
\* the last step ran the rate-limiter pipeline and got its replies
PipelineExecuted == last.stage = "analysis" /\ last.results # << >>

\* now - windowSeconds at the time of the last rate-limiter call
WindowStart == last.time - FAILED_LOGIN_WINDOW_SECONDS

\* the number of rows of a table that carry an alert_id
RowsWithId(table, id) ==
    Cardinality({ i \in 1..Len(table) : table[i].alert_id = id })

\* the last step called insert_alert with an alert that carries an alert_id
InsertCalled ==
    /\ last.stage = "persistence" /\ last.writer
    /\ "alert_id" \in DOMAIN last.body.obj

\* one step of the persistence stage, as the primary key on alert_id shapes it
C1_Step ==
    (InsertCalled' /\ deliveries' = deliveries + 1) =>
        LET id == last'.body.obj.alert_id
        IN  /\ RowsWithId(rows', id) <= 1
            /\ (/\ RowsWithId(rows, id) = 1
                /\ last'.executed
                /\ last'.dbFault # "DataError")
               => (last'.outcome = "UniqueViolation" /\ RowsWithId(rows', id) = 1)
            /\ last'.outcome = "UniqueViolation" => RowsWithId(rows, id) = 1
            /\ (last'.outcome = "True" /\ RowsWithId(rows, id) = 0)
               => RowsWithId(rows', id) = 1

\* C1: the alerts table never holds two rows with one alert_id, and a call of
\* insert_alert whose INSERT reaches the database for an alert_id that is
\* already stored raises UniqueViolation (the Duplicate outcome, which is not
\* the False of a write failure) and leaves exactly one row with that
\* alert_id; UniqueViolation is raised in no other case.
C1_InsertIdempotent == [][C1_Step]_vars

\* C1 witness: a second insert of a stored alert_id was answered Duplicate
C1_Witness ==
    /\ InsertCalled
    /\ last.outcome = "UniqueViolation"
    /\ RowsWithId(rows, last.body.obj.alert_id) = 1

\* C2: in the persistence stage the decision follows the writer's outcome:
\* inserted -> Ack, duplicate alert_id -> Ack, write failure -> NackRequeue.
C2_DecisionFollowsWriter ==
    (last.stage = "persistence" /\ last.writer) =>
        /\ last.outcome \in { "True", "UniqueViolation", "False" }
        /\ last.outcome = "True" => last.decision = "Ack"
        /\ last.outcome = "UniqueViolation" => last.decision = "Ack"
        /\ last.outcome = "False" => last.decision = "NackRequeue"

\* C2 witness: the second delivery of an alert_id was acked
C2_Witness ==
    /\ last.stage = "persistence" /\ last.writer
    /\ last.outcome = "UniqueViolation"
    /\ last.decision = "Ack"
    /\ Len(rows) >= 1

\* the rule the dispatcher called ran to completion: it met no error and
\* either fired no alert or published the alert it fired
RuleRanToCompletion ==
    /\ last.stage = "analysis" /\ last.rules # << >>
    /\ last.ret # "Raise"
    /\ last.rules = << "failed_login" >> => last.results # << >>
    /\ last.alert # << >> => last.ret = "True"

\* C3 (as claimed): every event whose rule ran to completion is acked,
\* whether the rule produced an alert or not.
C3_CompletedRuleAcked ==
    RuleRanToCompletion => last.decision = "Ack"

\* C4: when the store fails while a user_login/FAILURE event is evaluated the
\* decision is NackRequeue, no count is taken from the failed call and no
\* alert is built.
C4_StoreFailureRequeues ==
    (/\ last.stage = "analysis" /\ last.rules = << "failed_login" >>
     /\ redis_client /\ last.redisFault # "none")
    => /\ last.decision = "NackRequeue"
       /\ last.results = << >> /\ last.count = -1
       /\ last.alert = << >>

\* C4 witness: a failed-login evaluation met a store failure
C4_Witness ==
    /\ last.stage = "analysis" /\ last.rules = << "failed_login" >>
    /\ redis_client /\ last.redisFault = "ConnectionErrorAfterExec"
    /\ last.decision = "NackRequeue"

\* C5 (as claimed): at both stages a body that is not valid JSON is nacked
\* without requeue and reaches neither a rule nor the writer.
C5_MalformedDropped ==
    (last.stage \in { "analysis", "persistence" } /\ last.body.json = "invalid")
    => /\ last.decision = "NackDrop"
       /\ last.rules = << >>
       /\ ~last.writer

\* C6 (as claimed): the failed-login rule hands an alert (CRITICAL, SECURITY,
\* ANLY-SEC-001) to the publisher iff the post-prune count (the ZCARD reply)
\* is at least the threshold.
C6_AlertIffThreshold ==
    PipelineExecuted =>
        /\ (last.alert # << >>) <=> (last.results[3] >= FAILED_LOGIN_THRESHOLD)
        /\ last.alert # << >> =>
               /\ last.alert[1].severity = "CRITICAL"
               /\ last.alert[1].alert_type = "SECURITY"
               /\ last.alert[1].rule_id = "ANLY-SEC-001"

\* the last call was the third one for its subject within 10 seconds: two
\* entries of earlier seconds, none older than 10 seconds, were stored
ThirdFailureWithinTenSeconds ==
    /\ PipelineExecuted
    /\ Cardinality(last.before) = 2
    /\ \A e \in last.before :
           last.time - 10 <= e.score /\ e.score < last.time

\* C7 (as claimed): with threshold 3 and window 60 the third failure within
\* 10 seconds gets count 3 and produces one alert ANLY-SEC-001 / CRITICAL.
C7_ThirdFailureAlerts ==
    (/\ FAILED_LOGIN_THRESHOLD = 3 /\ FAILED_LOGIN_WINDOW_SECONDS = 60
     /\ ThirdFailureWithinTenSeconds)
    => /\ last.results[3] = 3
       /\ last.count = 3
       /\ Len(last.alert) = 1
       /\ last.alert[1].rule_id = "ANLY-SEC-001"
       /\ last.alert[1].severity = "CRITICAL"

\* the entries of the subject's sorted set that lie inside the window
InWindow(zs) == { e \in zs : e.score >= WindowStart }

\* C8: after a rate-limiter call no entry older than now - windowSeconds is
\* left under the subject key, so neither the ZCARD reply nor the value the
\* rule compares with the threshold counts such an entry.
C8_PruneCorrectness ==
    PipelineExecuted =>
        /\ \A e \in zsets[last.key] : e.score >= WindowStart
        /\ last.results[3] = Cardinality(InWindow(zsets[last.key]))
        /\ last.results[3] <= Cardinality(InWindow(last.before)) + 1
        /\ last.count <= Cardinality(InWindow(zsets[last.key]))

\* C8 witness: the call found an entry older than the window
C8_Witness ==
    /\ PipelineExecuted
    /\ \E e \in last.before : e.score < WindowStart

C10_EachCallAddsEntry ==
    PipelineExecuted =>
        /\ last.results[1] = 1
        /\ last.results[3] =
               Cardinality(ZRemRangeByScore(last.before, 0, WindowStart)) + 1

(***************************************************************************)
(* Publishing and acknowledging                                            *)
(***************************************************************************)
\* the rule called by the last delivery fired: it built an alert
RuleFired == last.stage = "analysis" /\ last.alert # << >>

\* the alert the last delivery built is the newest message of the alert queue
AlertPublished ==
    /\ RuleFired
    /\ Len(alerts_queue) >= 1
    /\ alerts_queue[Len(alerts_queue)] = last.alert[1]

\* the broker has the last delivery back in its queue: it was nacked with
\* requeue=True, or it stayed unsettled on a channel that is closed
ReturnedToQueue ==
    \/ last.decision = "NackRequeue"
    \/ last.decision = "Raise" /\ consumer_channel # "open"

\* C11: an event for which a rule fired is acked only if its alert was
\* published, and when the publish failed the event is not acked and is back
\* in the queue for redelivery.
C11_AckOnlyAfterPublish ==
    RuleFired =>
        /\ last.decision = "Ack" => AlertPublished
        /\ ~AlertPublished => (last.decision # "Ack" /\ ReturnedToQueue)

\* C11 witness: a rule fired, the publish failed and the event was requeued
C11_Witness ==
    /\ RuleFired /\ last.pubFault = "Exception"
    /\ ~AlertPublished /\ last.decision = "NackRequeue"

\* C12 (as claimed): when an event whose alert could not be published is
\* redelivered after its NackRequeue, the alert built on the retry carries
\* the alert_id of the alert built on the first attempt.
C12_AlertIdKeptOnRetry ==
    [][ (/\ RuleFired /\ last.decision = "NackRequeue"
         /\ RuleFired' /\ last'.body = last.body
         /\ deliveries' = deliveries + 1)
        => last'.alert[1].alert_id = last.alert[1].alert_id ]_vars

(***************************************************************************)
(* The analysis-stage connection manager                                   *)
(***************************************************************************)
\* the last step was a call of connect_rabbitmq_channels by the loop
ConnectCalled == last.stage = "connect"

\* one call of connect_rabbitmq_channels, seen from the loop
C13_Step ==
    (ConnectCalled' /\ consumer_pc = "check") =>
        /\ (consumer_pc' = "consume") <=> (broker = "up")
        /\ health'.rabbitmq <=> (consumer_pc' = "consume")
        /\ consumer_pc' = "consume" =>
               /\ connection' = "open"
               /\ consumer_channel' = "open"
               /\ publisher_channel' = "open"
        /\ broker \in { "refuses_consumer_queue", "refuses_publisher_queue" } =>
               /\ consumer_pc' = "loop"
               /\ last'.ret = "False"
               /\ connection' = "None"
               /\ consumer_channel' = "None"
               /\ publisher_channel' = "None"
               /\ (~unreferenced /\ connection # "open") => ~unreferenced'

\* C13: connect_rabbitmq_channels reports success and sets the broker health
\* flag only when both queue declarations succeeded; when the declaration of
\* the consumer queue or of the publisher queue fails, the connection it
\* opened is closed, connection and both channels are None and it reports
\* failure.
C13_SuccessNeedsBothDeclarations == [][C13_Step]_vars

\* C13 witness: the declaration of the publisher queue failed
C13_Witness ==
    /\ ConnectCalled /\ last.outcome = "publisher_declare_failed"
    /\ connection = "None" /\ ~health.rabbitmq /\ consumer_pc = "loop"

\* C14 (as claimed): no open broker connection is ever left without a
\* reference: whatever fails, what is open is closed before its reference is
\* dropped or overwritten.
C14_NoUnreferencedOpenConnection == ~unreferenced

\* the store and the broker are available
Available == redis_up /\ broker = "up"

\* C15: the loop never gives up: when the store and the broker become and
\* stay available, and nobody stops the consumer, it is consuming again and
\* again, whatever failed before.
C15_EventuallyConsuming ==
    (<>[]Available /\ [](consumer_pc # "stopped"))
        => []<>(consumer_pc = "consume")

\* C15 witness: consuming again, over a new connection, after having
\* consumed (and lost the connection) before
C15_Witness ==
    /\ consumer_pc = "consume"
    /\ ConnectCalled /\ last.ret = "True"
    /\ deliveries >= 1

\* the manager has no connection and is not consuming
Disconnected ==
    consumer_pc \in { "loop", "check" } /\ connection # "open"

\* C17: the broker health flag is never True while the manager is
\* Disconnected and never False while it is Consuming.
C17_HealthTracksConnection ==
    /\ Disconnected => ~health.rabbitmq
    /\ consumer_pc = "consume" => health.rabbitmq

\* C17 witness: the manager was consuming, lost its connection and the flag
\* is False
C17_Witness ==
    /\ Disconnected /\ connection = "None" /\ ~health.rabbitmq
    /\ deliveries >= 1 /\ last.stage = "none"

(***************************************************************************)
(* The persistence-stage consumer, concurrency and shutdown                *)
(***************************************************************************)
\* C16 (as claimed): after a failed first connect or an unexpected close the
\* persistence consumer retries: when the broker is available from some
\* point on, and the service neither crashed nor was stopped, it is consuming
\* again.
C16_ReconnectsUntilConsuming ==
    (<>[](broker = "up") /\ [](notif_pc # "crashed" /\ ~closing))
        => []<>NotifierConsuming

\* C18 (as claimed): no transient error ends the consuming task: main_task
\* is not ended by an unreachable database, and while the service runs its
\* consumer has not returned without consuming.
C18_NoTransientErrorEndsTask ==
    /\ notif_pc # "crashed"
    /\ notif_pc = "waiting" => consumer_tag

\* C19 (as claimed): a consumer never has more than one delivered and not
\* yet settled message in its hands.
C19_OneDeliveryAtATime == Cardinality(in_flight) <= 1

\* C20 (as claimed): on shutdown the consumer is cancelled first, then the
\* channels are closed, then the connection: connection.close is never
\* issued while a channel of the connection is open or the consumer is not
\* cancelled, and nothing is issued after it.
C20_OrderedShutdown ==
    \A i \in 1..Len(closing_ops) :
        closing_ops[i].op = "connection.close" =>
            /\ closing_ops[i].open_channels = {}
            /\ ~closing_ops[i].consuming
            /\ i = Len(closing_ops)
            /\ \A j \in 1..(i - 1) : \A k \in 1..(j - 1) :
                   closing_ops[j].op = "basic_cancel" =>
                       closing_ops[k].op # "channel.close"

\* one step of the persistence stage, as a shutdown shapes it
C21_Step ==
    /\ closing => deliveries' = deliveries
    /\ (closing /\ unacked' # unacked /\ last'.stage = "persistence")
           => (self_channel = "open" /\ last'.decision # "Raise")
    /\ (closing' /\ self_channel = "open" /\ self_channel' # "open")
           => (unacked' = {} /\ requeued' = requeued \cup unacked)
    /\ notif_pc' = "stopped" => unacked' = {}

\* C21: once the shutdown signal is handled no new delivery is handed to a
\* handler; a message in flight is settled only on the channel while it is
\* open, and what is unsettled when the channel is closed is back in the
\* queue, so nothing is unsettled when the service has stopped.
C21_ShutdownDrainsOrRequeues == [][C21_Step]_vars

\* C21 witness: the service stopped while a handler was in flight, and its
\* message is back in the queue
C21_Witness ==
    /\ notif_pc = "stopped"
    /\ \E t \in in_flight : t.tag \in requeued
    /\ unacked = {}

\* the rules the dispatcher called in the last delivery
RuleCalled(rule) == \E i \in DOMAIN last.rules : last.rules[i] = rule

\* C22 (as claimed): a rule that ran to its end without an error and fired no
\* alert returns True: a failed login below the threshold and a modification
\* of a file that is not sensitive each return True and publish nothing.
C22_NoAlertIsSuccess ==
    ( /\ last.stage = "analysis"
      /\ last.alert = << >>
      /\ \/ RuleCalled("failed_login") /\ PipelineExecuted
         \/ RuleCalled("sensitive_file") )
    => last.ret = "True"

\* C23 (as claimed): when the store raises a connection error during the
\* pipeline, the failed-login rule sets the store health status to False,
\* returns False and publishes no alert; the error does not leave the rule.
C23_StoreErrorHandled ==
    ( /\ last.stage = "analysis"
      /\ RuleCalled("failed_login")
      /\ redis_client
      /\ last.redisFault # "none" )
    => /\ ~health.redis
       /\ last.ret = "False"
       /\ last.alert = << >>

\* C24 (as claimed): in the persistence stage an alert that is valid JSON but
\* lacks `timestamp` or `alert_id` is dropped (NackDrop), never requeued, also
\* when the database is up and answers without fault.
C24_MissingFieldDropped ==
    ( /\ last.stage = "persistence"
      /\ last.body.utf8 /\ last.body.head /\ last.body.json = "object"
      /\ pool /\ last.dbFault = "none"
      /\ \/ "timestamp" \notin DOMAIN last.body.obj
         \/ "alert_id" \notin DOMAIN last.body.obj )
    => last.decision = "NackDrop"

\* C25 (as claimed): in the analysis stage a body that cannot be decoded as an
\* event (bytes that are not UTF-8, text that is not JSON, JSON that is not an
\* object) is dropped (NackDrop) without any rule being called.
C25_UndecodableDropped ==
    ( /\ last.stage = "analysis"
      /\ ~last.body.utf8 \/ last.body.json # "object" )
    => /\ last.decision = "NackDrop"
       /\ last.rules = << >>

\* C26: for every decoded event at most one rule is called and at most one
\* alert is built; the failed-login rule is called exactly for user_login /
\* FAILURE, the sensitive-file rule exactly for file_modified / MODIFIED, and
\* an event of neither kind is acked with no rule called.
C26_AtMostOneRule ==
    ( /\ last.stage = "analysis"
      /\ last.body.utf8 /\ last.body.json = "object" )
    => LET event == last.body.obj
           event_type == Get(event, "event_type", "None")
           action_result == Get(event, "action_result", "None")
           login == event_type = "user_login" /\ action_result = "FAILURE"
           file == event_type = "file_modified" /\ action_result = "MODIFIED"
       IN  /\ Len(last.rules) <= 1
           /\ Len(last.alert) <= 1
           /\ RuleCalled("failed_login") <=> login
           /\ RuleCalled("sensitive_file") <=> file
           /\ (~login /\ ~file) =>
                  /\ last.rules = << >>
                  /\ last.decision = "Ack"

\* a successful login was acked with no rule called
C26_Witness ==
    /\ last.stage = "analysis"
    /\ last.body.json = "object"
    /\ Get(last.body.obj, "event_type", "None") = "user_login"
    /\ Get(last.body.obj, "action_result", "None") = "SUCCESS"
    /\ last.rules = << >>
    /\ last.decision = "Ack"

\* the resource holds one of the configured paths as a run of its pieces
HoldsSensitivePath(resource) ==
    \E path \in SENSITIVE_FILES :
        \E i \in 1..Len(resource) :
            /\ i + Len(path) - 1 <= Len(resource)
            /\ \A j \in 1..Len(path) : resource[i + j - 1] = path[j]

C27_Step ==
    ( /\ deliveries' = deliveries + 1
      /\ last'.stage = "analysis"
      /\ last'.body.utf8 /\ last'.body.json = "object"
      /\ Get(last'.body.obj, "event_type", "None") = "file_modified"
      /\ Get(last'.body.obj, "action_result", "None") = "MODIFIED" )
    => LET sensitive ==
               HoldsSensitivePath(Get(last'.body.obj, "resource", << >>))
       IN  /\ (last'.alert # << >>) <=> sensitive
           /\ sensitive =>
                  /\ Len(last'.alert) = 1
                  /\ last'.alert[1].rule_id = "ANLY-SEC-002"
                  /\ last'.alert[1].severity = "CRITICAL"
                  /\ last'.alert[1].alert_type = "SECURITY"
                  /\ alerts_queue' =
                         IF last'.pubFault = "none"
                         THEN Append(alerts_queue, last'.alert[1])
                         ELSE alerts_queue
           /\ ~sensitive => alerts_queue' = alerts_queue

\* C27: for every file_modified / MODIFIED event the sensitive-file rule hands
\* exactly one alert (ANLY-SEC-002, CRITICAL, SECURITY) to the publisher, which
\* puts it on the alert queue unless basic_publish fails, iff the resource
\* holds a configured sensitive path as a case-sensitive substring; otherwise
\* nothing is built and the alert queue is left as it was.
C27_AlertIffSensitivePath == [][C27_Step]_vars

\* a path that differs in case only was let through after a path that holds
\* /etc/shadow in its middle was reported
C27_Witness ==
    /\ last.stage = "analysis"
    /\ Get(last.body.obj, "resource", << >>) = << "/ETC", "/PASSWD" >>
    /\ last.alert = << >>
    /\ last.decision = "NackRequeue"
    /\ \E i \in DOMAIN alerts_queue :
          /\ alerts_queue[i].rule_id = "ANLY-SEC-002"
          /\ alerts_queue[i].raw_event_data.event_id = 207

\* C28: window 60, threshold 3: when every earlier failure of the subject is
\* at least 70 seconds old, the count the rate limiter returns (the ZCARD
\* reply, and the value the rule compares) stays below 2 and no alert is built.
C28_SpacedFailuresNeverCount ==
    ( /\ PipelineExecuted
      /\ \A e \in last.before : e.score + 70 <= last.time )
    => /\ last.results[3] < 2
       /\ last.count < 2
       /\ last.alert = << >>

\* the third failure of alice@h1, 70 seconds after the second, which came 70
\* seconds after the first
C28_Witness ==
    /\ PipelineExecuted
    /\ last.time = 140
    /\ last.before = { [ member |-> IsoTimestampZ(70), score |-> 70 ] }
    /\ deliveries = 3

\* the (user_id, server_hostname) pairs of the failed logins
Subjects ==
    { << b.obj.user_id, b.obj.server_hostname >> :
        b \in { rb \in RuleBodies : rb.obj.event_type = "user_login" } }

C29_Step ==
    \A s \in Subjects :
        ( /\ deliveries' = deliveries + 1
          /\ last'.stage = "analysis"
          /\ last'.body.obj.event_type = "user_login"
          /\ << last'.body.obj.user_id, last'.body.obj.server_hostname >> # s )
        => ZCard(zsets'[ZsetKey(s[1], s[2])]) = ZCard(zsets[ZsetKey(s[1], s[2])])

\* C29 (as claimed): a failure recorded for one (user_id, server_hostname)
\* pair never changes the number of entries counted for a different pair.
C29_SubjectsIndependent == [][C29_Step]_vars

\* C30: every rate-limiter call sets the key's expiry to the time of the call
\* plus windowSeconds + 60; a key that exists was called less than
\* windowSeconds + 60 seconds ago, and the entries Redis drops with a key are
\* all outside the window.
C30_ExpiryResetEveryCall ==
    /\ PipelineExecuted =>
           expiry[last.key] = last.time + FAILED_LOGIN_WINDOW_SECONDS + 60
    /\ \A k \in Keys :
           zsets[k] # {} =>
               /\ expiry[k] # -1
               /\ now < expiry[k]
               /\ \E e \in zsets[k] :
                      expiry[k] = e.score + FAILED_LOGIN_WINDOW_SECONDS + 60
    /\ last.stage = "expired" =>
           \A e \in last.before :
               e.score + FAILED_LOGIN_WINDOW_SECONDS <= last.time

\* Redis dropped a key, and its entries, that no call had touched for
\* windowSeconds + 60 seconds
C30_Witness ==
    /\ last.stage = "expired"
    /\ last.before # {}
    /\ zsets[last.key] = {}
    /\ expiry[last.key] = -1
    /\ \A e \in last.before :
           e.score + FAILED_LOGIN_WINDOW_SECONDS + 60 <= now

\* the last delivery carried an alert with an alert_id and a timestamp that
\* ends in an explicit zero offset followed by Z
OffsetAndZ ==
    /\ last.stage = "persistence"
    /\ last.body.utf8 /\ last.body.head /\ last.body.json = "object"
    /\ "alert_id" \in DOMAIN last.body.obj
    /\ "timestamp" \in DOMAIN last.body.obj
    /\ Len(last.body.obj.timestamp) = 3
    /\ IsDateTime(last.body.obj.timestamp[1])
    /\ last.body.obj.timestamp[2] = "+00:00"
    /\ last.body.obj.timestamp[3] = "Z"

\* C32: an alert whose timestamp ends in +00:00Z is not rejected by the
\* writer when the database answers: it is inserted with the Z removed (or
\* found to be there already) and the message is acked.
C32_RedundantZStripped ==
    (OffsetAndZ /\ pool /\ last.dbFault = "none") =>
        /\ last.outcome \in { "True", "UniqueViolation" }
        /\ last.decision = "Ack"
        /\ last.outcome = "True" =>
               /\ rows[Len(rows)].alert_id = last.body.obj.alert_id
               /\ rows[Len(rows)].timestamp =
                      << last.body.obj.timestamp[1], "+00:00" >>

\* an alert stamped 10+00:00Z was inserted with the timestamp 10+00:00
C32_Witness ==
    /\ OffsetAndZ
    /\ last.outcome = "True"
    /\ last.decision = "Ack"
    /\ rows # << >>
    /\ rows[Len(rows)].timestamp = << "10", "+00:00" >>

\* C33: in the analysis stage the processed counter and the consumed counter
\* are each incremented exactly once for a delivery whose body decodes as an
\* event (a JSON object), and not at all for a body that is not UTF-8, not
\* JSON or not an object.
C33_CountersFollowDecoding ==
    last.stage = "analysis" =>
        IF last.body.utf8 /\ last.body.json = "object"
        THEN last.processed = 1 /\ last.consumed = 1
        ELSE last.processed = 0 /\ last.consumed = 0

\* a body that is not JSON was dropped with both counters left alone
C33_Witness ==
    /\ last.stage = "analysis"
    /\ last.body.utf8 /\ last.body.json = "invalid"
    /\ last.decision = "NackDrop"
    /\ last.processed = 0
    /\ last.consumed = 0

\* C35 (as claimed): every run of either stage's handler settles its delivery
\* exactly once: one basic_ack or basic_nack call is made, never none and
\* never two, and the handler is not left by an exception.
C35_SettledExactlyOnce ==
    last.stage \in { "analysis", "persistence" } =>
        /\ last.settles = 1
        /\ last.decision \in { "Ack", "NackRequeue", "NackDrop" }

\* a well-formed alert: the writer finds what it needs in it
WellFormedAlert(body) ==
    /\ body.utf8 /\ body.head /\ body.json = "object"
    /\ "alert_id" \in DOMAIN body.obj
    /\ "timestamp" \in DOMAIN body.obj
    /\ FromIsoformatOk(NormalizeTimestamp(body.obj.timestamp))

\* C36 (as claimed): a well-formed alert that was requeued is stored and
\* acked once the database answers again; the stage does not stay where every
\* insert fails and every message is requeued.
C36_InsertsResume ==
    ( /\ last.stage = "persistence"
      /\ last.decision = "NackRequeue"
      /\ WellFormedAlert(last.body) )
    ~> ( /\ last.stage = "persistence"
         /\ last.decision = "Ack" )

\* C38 (as claimed): processing a failed-login event again does not raise
\* the subject's count.  Event 201 is the only failure of alice@h1 and every
\* processing of it ends in a nack with requeue=True, so a delivery that
\* finds entries in the subject's set is a redelivery of the event that wrote
\* them; the count it gets is the count of the entries still in the window.
C38_RedeliveryNotCounted ==
    ( /\ PipelineExecuted
      /\ last.body.obj.event_id = 201
      /\ last.before # {} )
    => last.results[3] =
           Cardinality({ e \in last.before : e.score > WindowStart })

\* one step of disconnect, as the claim shapes it
C39_Step ==
    /\ (notif_pc = "waiting" /\ notif_pc' # "waiting" /\ self_channel # "open")
           => closing_ops' = closing_ops
    /\ (notif_pc \in { "cancelled", "cancel_failed" } /\ notif_pc' = "closed")
           => /\ self_connection = "open" =>
                     /\ closing_ops' # closing_ops
                     /\ closing_ops'[Len(closing_ops')].op = "connection.close"
              /\ (self_channel # "open" /\ self_connection # "open")
                     => closing_ops' = closing_ops
    /\ notif_pc' = "stopped"
           => /\ ~connected'
              /\ self_channel' = "None"
              /\ self_connection' = "None"

C37_OneConsumerAndCanRegister ==
    /\ consumers.analysis <= 1
    /\ consumers.persistence <= 1
    /\ (consumer_pc = "consume" /\ consumer_channel = "open")
           => consumers.analysis = 1
    /\ (last.stage = "start_consuming" /\ self_channel = "open")
           => consumers.persistence = 1

\* the setter call logged at i has returned before position j of the log
ReturnedBefore(i, j) ==
    \E k \in DOMAIN setter_log :
        /\ i < k /\ k < j
        /\ setter_log[k].ev = "return"
        /\ setter_log[k].thread = setter_log[i].thread

\* the calls for a component that no other call for it was made after they
\* had returned: the calls that can be the last one
LastSetterCalls(component) ==
    { i \in SetterCalls :
        /\ setter_log[i].component = component
        /\ ~\E j \in SetterCalls :
              /\ setter_log[j].component = component
              /\ ReturnedBefore(i, j) }

\* C40 (as claimed): get_health_status returns, for each component, the
\* initial False or a status some setter call was given; and once every
\* setter call has returned, the flag and the gauge of a component both hold
\* the status of one last call for it.
C40_FlagAndGaugeHoldLastCall ==
    /\ \A c \in Components :
          \/ observed[c] = FALSE
          \/ \E i \in SetterCalls :
                /\ setter_log[i].component = c
                /\ setter_log[i].status = observed[c]
    /\ (\A t \in Threads : setters[t].pc = "idle")
           => \A c \in Components :
                 LastSetterCalls(c) # {}
                    => \E i \in LastSetterCalls(c) :
                          /\ health[c] = setter_log[i].status
                          /\ gauges[c] = GaugeValue(setter_log[i].status)

\* the entry a pipeline call adds
OwnEntry(c) ==
    [ member |-> IsoTimestampZ(calls[c].time), score |-> calls[c].time ]

\* the entries that lie in the window of a call
InWindowOf(c, entries) ==
    { e \in entries :
        /\ calls[c].time - FAILED_LOGIN_WINDOW_SECONDS < e.score
        /\ e.score <= calls[c].time }

\* C31 (as claimed): a pipeline call counts in the set it has just added to
\* and pruned, with no other caller's command in between, and the count the
\* call yields includes its own entry and every in-window entry added by the
\* calls that completed before it.
C31_AtomicAndCountsCompleted ==
    \A c \in Callers :
        calls[c].pc = "done"
        => /\ calls[c].results[3] =
                 Cardinality(PipelineZset(calls[c].before,
                                          OwnEntry(c).member, OwnEntry(c).score))
           /\ calls[c].count >=
                 Cardinality(InWindowOf(c, calls[c].completed)
                             \cup { OwnEntry(c) })

\* C34: the alert the persistence handler gets from json.loads has the same
\* fields with the same values as the alert the publisher gave to json.dumps:
\* none added, none dropped, none changed.
C34_AlertRoundTrip ==
    (last.stage = "persistence" /\ last.alert # << >>)
        => /\ last.body.json = "object"
           /\ last.body.obj = last.alert[1]

\* an alert about a path with a backslash, raised by a user with a quote in
\* the name, has reached the handler and was stored
C34_Witness ==
    /\ last.stage = "persistence"
    /\ last.alert # << >>
    /\ last.alert[1].actor_id = << "al", "\"", "ice" >>
    /\ last.alert[1].raw_event_data.resource = << "/etc", "/passwd", "\\" >>
    /\ last.outcome = "True"
    /\ \E r \in DOMAIN rows : rows[r].alert_id = last.alert[1].alert_id

====
